---- MODULE Spec2Model ----
(***************************************************************************)
(* Cart-state engine of the React/GraphQL cart library.                    *)
(*                                                                         *)
(* Part 1: the client-side cart core (src/src/core/cartCore.secure.js)     *)
(* and the sanitizer/validators it calls (security/sanitizer, kept in      *)
(* src/unnamed/part_002, lines 127-322).                                   *)
(* Part 2: the RateLimiter of the same sanitizer module.                   *)
(* Part 3: the GraphQL resolvers (src/backend/src/schema/typeDefs.js) over *)
(* the in-memory database (src/server/middleware/validation.js, 420-735),  *)
(* first one request at a time, then with requests interleaved at their    *)
(* await points.                                                           *)
(* Part 4: the storage module of the cart core (save, load, clear over     *)
(* localStorage).                                                          *)
(* Part 5: sanitize.object on nested input.                                *)
(* Part 6: the enhanced CartProvider                                       *)
(* (src/frontend/src/context/CartContext.enhanced.jsx).                    *)
(*                                                                         *)
(* Representation of JavaScript values                                     *)
(*  - a string is a sequence of one-character strings, so that the markup  *)
(*    stripping of sanitize.text is computed and not assumed;              *)
(*  - a number is an integer.  Money is exact: a raw price is a count of   *)
(*    mills (1/1000 of the currency unit), a validated price and a         *)
(*    subtotal are counts of cents, and the value calculateTotal rounds    *)
(*    is a count of 1/10000 cent.  IEEE-754 representation error is not    *)
(*    modelled;                                                            *)
(*  - an object is the sequence of its own enumerable <<key, value>>       *)
(*    entries in insertion order, which is the order Object.entries and    *)
(*    JSON.stringify use for non-index keys; two objects have the same     *)
(*    JSON.stringify text exactly when these sequences are equal.          *)
(***************************************************************************)
EXTENDS Integers, Sequences, FiniteSets, TLC

VARIABLES
    cart,       \* the cart-items array the caller holds after the last call
    arg,        \* the array that was passed to the last call, as it is after the call
    pre,        \* the contents of that array when the call was made
    ret,        \* the last call: operation, inputs and outcome
    ops,        \* number of cart-core calls made so far
    calc,       \* the last call of a pure function and its result
    limiter,    \* the RateLimiter object, the clock, and a log of its calls
    server,     \* the database Maps, before and after the last request, and its response
    tasks,      \* the requests in flight when resolvers interleave
    local,      \* localStorage and the calls made to the storage module
    provider    \* the CartProvider component: React state, renders, calls

cartVars == <<cart, arg, pre, ret, ops>>
clientVars == <<cart, arg, pre, ret, ops, calc>>
vars == <<cart, arg, pre, ret, ops, calc, limiter, server, tasks, local, provider>>

\* the value of a variable of a part the specification at hand does not exercise
Unused == <<>>

----------------------------------------------------------------------------
(* Strings *)

Red == <<"r", "e", "d">>
Blue == <<"b", "l", "u", "e">>
BoldRed == <<"<", "b", ">", "r", "e", "d", "<", "/", "b", ">">>
Color == <<"c", "o", "l", "o", "r">>
Tee == <<"T", "e", "e">>
PaddedMug == <<" ", "M", "u", "g", " ">>
OnlyTag == <<"<", "i", ">">>

\* index of the first ">" at or after position i, 0 when there is none
RECURSIVE FirstClose(_, _)
FirstClose(s, i) ==
    IF i > Len(s) THEN 0
    ELSE IF s[i] = ">" THEN i
    ELSE FirstClose(s, i + 1)

\* input.replace(/<[^>]*>/g, ''), scanning from position i
RECURSIVE StripTagsFrom(_, _)
StripTagsFrom(s, i) ==
    IF i > Len(s) THEN <<>>
    ELSE IF s[i] = "<" /\ FirstClose(s, i + 1) # 0
         THEN StripTagsFrom(s, FirstClose(s, i + 1) + 1)
         ELSE <<s[i]>> \o StripTagsFrom(s, i + 1)

RECURSIVE TrimLeft(_)
TrimLeft(s) ==
    IF s # <<>> /\ Head(s) = " " THEN TrimLeft(Tail(s)) ELSE s

RECURSIVE TrimRight(_)
TrimRight(s) ==
    IF s # <<>> /\ s[Len(s)] = " " THEN TrimRight(SubSeq(s, 1, Len(s) - 1)) ELSE s

\* String.prototype.trim
Trim(s) == TrimRight(TrimLeft(s))

\* sanitize.text on a string (fallback branch).  No modelled string spells
\* "<script", so the first replace, which removes whole script elements,
\* leaves every modelled string as it is.
sanitize_text(input) == Trim(StripTagsFrom(input, 1))

----------------------------------------------------------------------------
(* Numbers *)

MAX_CART_SIZE == 50
MIN_QUANTITY == 1
MAX_QUANTITY == 999
MAX_PRICE == 10000000
MAX_NAME_LENGTH == 200
MAX_PERCENT == 100
MAX_SHIPPING == 1000

\* sanitize.number(input, min, max) returns input when this holds and throws otherwise
sanitize_number_ok(num, min, max) == ~(num < min \/ num > max)

\* sanitize.number(input, min) with the default max = Infinity
sanitize_number_min_ok(num, min) == ~(num < min)

\* Math.round(x / d) for an integer x and an even d > 0: floor(x / d + 1/2)
RoundDiv(x, d) == (x + d \div 2) \div d

\* validators.productId: 1 .. Number.MAX_SAFE_INTEGER (no modelled id reaches the upper bound)
validators_productId_ok(id) == id >= 1

\* validators.quantity
validators_quantity_ok_lax(qty) == sanitize_number_ok(qty, MIN_QUANTITY, MAX_QUANTITY + 1)
validators_quantity_ok(qty) == sanitize_number_ok(qty, MIN_QUANTITY, MAX_QUANTITY)

\* validators.price on a raw price in mills: the range check 0 <= p <= MAX_PRICE, with
\* the upper bound compared in whole units (MAX_PRICE in mills exceeds the integers of
\* the model checker), then Math.round(p * 100) / 100
validators_price_ok(mills) ==
    /\ sanitize_number_min_ok(mills, 0)
    /\ sanitize_number_ok((mills + 999) \div 1000, 0, MAX_PRICE)
validators_price(mills) == RoundDiv(mills, 10)

\* validators.productName
validators_productName_ok(name) ==
    /\ Len(sanitize_text(name)) >= 1
    /\ Len(sanitize_text(name)) <= MAX_NAME_LENGTH
validators_productName(name) == sanitize_text(name)

----------------------------------------------------------------------------
(* Variants and images *)

\* raw variant values a caller can pass
VNull == [kind |-> "null", str |-> <<>>, entries |-> <<>>]
VUndefined == [kind |-> "undefined", str |-> <<>>, entries |-> <<>>]
VString(s) == [kind |-> "string", str |-> s, entries |-> <<>>]
VObject(es) == [kind |-> "object", str |-> <<>>, entries |-> es]
EmptyObject == VObject(<<>>)

\* JavaScript truthiness of a variant value
Truthy(v) == v.kind = "object" \/ (v.kind = "string" /\ v.str # <<>>)

\* sanitized[cleanKey] = cleanValue: an existing key keeps its place
RECURSIVE KeyIndex(_, _, _)
KeyIndex(es, k, i) ==
    IF i > Len(es) THEN 0
    ELSE IF es[i][1] = k THEN i
    ELSE KeyIndex(es, k, i + 1)

SetEntry(es, k, v) ==
    IF KeyIndex(es, k, 1) = 0 THEN Append(es, <<k, v>>)
    ELSE [es EXCEPT ![KeyIndex(es, k, 1)] = <<k, v>>]

\* the loop of sanitize.object over Object.entries(input); every modelled value is a string
RECURSIVE SanitizeEntries(_, _)
SanitizeEntries(es, acc) ==
    IF es = <<>> THEN acc
    ELSE LET cleanKey == sanitize_text(Head(es)[1])
             cleanValue == sanitize_text(Head(es)[2])
         IN SanitizeEntries(Tail(es),
                IF cleanKey # <<>> THEN SetEntry(acc, cleanKey, cleanValue) ELSE acc)

\* sanitize.object
sanitize_object(input) ==
    IF input.kind # "object" THEN EmptyObject
    ELSE VObject(SanitizeEntries(input.entries, <<>>))

\* validators.variant, and the `variant ? sanitize.object(variant) : null` of removeItem/updateQuantity
validators_variant(variant) ==
    IF ~Truthy(variant) THEN VNull ELSE sanitize_object(variant)

\* raw image values: null, or a string that new URL() parses to the given protocol
\* (href is the string itself: every modelled URL is already in normalised form)
NoImage == [kind |-> "null", protocol |-> "", href |-> <<>>]
HttpsImage == [kind |-> "string", protocol |-> "https:", href |-> <<"h">>]
ScriptImage == [kind |-> "string", protocol |-> "javascript:", href |-> <<"j">>]

\* sanitize.url / validators.image
validators_image(url) ==
    IF url.kind = "null" \/ url.href = <<>> THEN NoImage
    ELSE IF url.protocol \in {"http:", "https:"} THEN url
    ELSE NoImage

\* item.quantity || 1
OrOne(q) == IF q = 0 THEN 1 ELSE q

\* validators.cartItem: does every field validate
validators_cartItem_ok(item) ==
    /\ validators_productId_ok(item.id)
    /\ validators_productName_ok(item.name)
    /\ validators_price_ok(item.price)
    /\ validators_quantity_ok(OrOne(item.quantity))

\* validators.cartItem: the validated item
validators_cartItem(item) ==
    [id |-> item.id,
     name |-> validators_productName(item.name),
     price |-> validators_price(item.price),
     quantity |-> OrOne(item.quantity),
     image |-> validators_image(item.image),
     variant |-> validators_variant(item.variant)]

----------------------------------------------------------------------------
(* Cart core: cartCore.secure.js *)

\* item.id === validProduct.id &&
\* JSON.stringify(item.variant) === JSON.stringify(validProduct.variant)
SameEntry(item, id, variant) == item.id = id /\ item.variant = variant

\* the reduce of addItem: the number of entries that are not the candidate's
currentSize_allEntries(c, validProduct) == Len(c)
currentSize(c, validProduct) ==
    Cardinality({i \in DOMAIN c : ~SameEntry(c[i], validProduct.id, validProduct.variant)})

\* currentSize >= MAX_CART_SIZE
cartIsFull_offByOne(size) == size > MAX_CART_SIZE
cartIsFull(size) == size >= MAX_CART_SIZE

\* cart.findIndex(...) as a 1-based index, 0 for JavaScript's -1
RECURSIVE FindIndexFrom(_, _, _, _)
FindIndexFrom(c, id, variant, i) ==
    IF i > Len(c) THEN 0
    ELSE IF SameEntry(c[i], id, variant) THEN i
    ELSE FindIndexFrom(c, id, variant, i + 1)

existingIndex(c, validProduct) == FindIndexFrom(c, validProduct.id, validProduct.variant, 1)

\* newCart[existingIndex].quantity + validProduct.quantity
newQuantity_overwrite(existing, validProduct) == validProduct.quantity
newQuantity(existing, validProduct) == existing.quantity + validProduct.quantity

\* The outcome of a call: err is the code of the CartError thrown ("" when the
\* call returns), cart is the array the caller holds afterwards (the returned
\* array, or the array it passed when the call throws), arg is the array it
\* passed as the call leaves it.
Outcome(err, c, a) == [err |-> err, cart |-> c, arg |-> a]

\* cartCore.addItem.  In the merge branch newCart is a shallow copy, so
\* newCart[existingIndex] is the very object the caller's array holds and the
\* assignment to its quantity shows in both arrays.
addItem(c, product) ==
    IF ~validators_cartItem_ok(product) THEN Outcome("ADD_FAILED", c, c)
    ELSE LET validProduct == validators_cartItem(product)
             idx == existingIndex(c, validProduct)
         IN IF cartIsFull(currentSize(c, validProduct)) THEN Outcome("CART_FULL", c, c)
            ELSE IF idx # 0
                 THEN LET q == newQuantity(c[idx], validProduct)
                          newCart == [c EXCEPT ![idx].quantity = q]
                      IN IF ~validators_quantity_ok(q)
                         THEN Outcome("QUANTITY_LIMIT", c, c)
                         ELSE Outcome("", newCart, newCart)
                 ELSE Outcome("", Append(c, validProduct), c)

\* cart.filter keeping the entries of another id
RECURSIVE FilterOut_byId(_, _, _)
FilterOut_byId(c, id, variant) ==
    IF c = <<>> THEN <<>>
    ELSE IF Head(c).id = id THEN FilterOut_byId(Tail(c), id, variant)
    ELSE <<Head(c)>> \o FilterOut_byId(Tail(c), id, variant)

\* Array.prototype.filter with the predicate of removeItem
RECURSIVE FilterOut(_, _, _)
FilterOut(c, id, variant) ==
    IF c = <<>> THEN <<>>
    ELSE IF SameEntry(Head(c), id, variant) THEN FilterOut(Tail(c), id, variant)
    ELSE <<Head(c)>> \o FilterOut(Tail(c), id, variant)

\* cartCore.removeItem: a failing id is logged and the cart returned as it is
removeItem(c, id, variant) ==
    IF ~validators_productId_ok(id) THEN Outcome("", c, c)
    ELSE Outcome("", FilterOut(c, id, validators_variant(variant)), c)

\* cartCore.updateQuantity
updateQuantity(c, id, variant, quantity) ==
    IF ~validators_productId_ok(id) \/ ~validators_quantity_ok(quantity)
    THEN Outcome("UPDATE_FAILED", c, c)
    ELSE Outcome("",
             [i \in DOMAIN c |->
                 IF SameEntry(c[i], id, validators_variant(variant))
                 THEN [c[i] EXCEPT !.quantity = quantity]
                 ELSE c[i]],
             c)

\* cartCore.clearCart
clearCart == <<>>

----------------------------------------------------------------------------
(* Monetary functions: cartCore.secure.js.  Amounts passed in and subtotals  *)
(* are in cents, percentages are whole numbers.                              *)

\* the cart argument of the monetary functions: an array, or null
AnArray(c) == [isArray |-> TRUE, items |-> c]
NotAnArray == [isArray |-> FALSE, items |-> <<>>]

\* validators.price and validators.quantity succeed on a stored entry
EntryPriceable(item) ==
    /\ validators_price_ok(item.price * 10)
    /\ validators_quantity_ok(item.quantity)

\* the reduce of calculateSubtotal: price * quantity summed over the entries
RECURSIVE SumEntries(_)
SumEntries(c) ==
    IF c = <<>> THEN 0
    ELSE validators_price(Head(c).price * 10) * Head(c).quantity + SumEntries(Tail(c))

\* cartCore.calculateSubtotal, in cents.  The sum is a whole number of cents, which
\* Math.round(subtotal * 100) / 100 leaves as it is.  A throwing validator gives 0.
calculateSubtotal(a) ==
    IF ~a.isArray THEN 0
    ELSE IF \E i \in DOMAIN a.items : ~EntryPriceable(a.items[i]) THEN 0
    ELSE SumEntries(a.items)

\* the three sanitize.number calls of calculateTotal all return
calculateTotal_args_ok(discount, tax, shipping) ==
    /\ sanitize_number_ok(discount, 0, MAX_PERCENT)
    /\ sanitize_number_ok(tax, 0, MAX_PERCENT)
    /\ sanitize_number_ok(shipping, 0, MAX_SHIPPING * 100)

\* taxAmount in 1/10000 cent: (subtotal - discountAmount) * (tax / 100)
taxAmount_onSubtotal(subtotal4, discountAmount4, tax) == (subtotal4 \div 100) * tax
taxAmount(subtotal4, discountAmount4, tax) == ((subtotal4 - discountAmount4) \div 100) * tax

\* cartCore.calculateTotal, in cents; the intermediate amounts are in 1/10000 cent.
\* A throwing sanitize.number is caught and gives 0.
calculateTotal(a, discount, tax, shipping) ==
    IF ~calculateTotal_args_ok(discount, tax, shipping) THEN 0
    ELSE LET subtotal4 == calculateSubtotal(a) * 10000
             discountAmount4 == (subtotal4 \div 100) * discount
             taxAmount4 == taxAmount(subtotal4, discountAmount4, tax)
             shippingFee4 == shipping * 10000
             total4 == subtotal4 - discountAmount4 + taxAmount4 + shippingFee4
         IN RoundDiv(total4, 10000)

\* the two sanitize.number calls of applyDiscount both return
applyDiscount_args_ok_noUpper(amount, discountPercent) ==
    /\ sanitize_number_min_ok(amount, 0)
    /\ sanitize_number_min_ok(discountPercent, 0)
applyDiscount_args_ok(amount, discountPercent) ==
    /\ sanitize_number_min_ok(amount, 0)
    /\ sanitize_number_ok(discountPercent, 0, MAX_PERCENT)

\* validAmount * (1 - validDiscount / 100), in 1/100 cent
discounted_added(validAmount, validDiscount) == validAmount * (100 + validDiscount)
discounted(validAmount, validDiscount) == validAmount * (100 - validDiscount)

\* cartCore.applyDiscount, in 1/100 cent.  A throwing sanitize.number is caught
\* and the amount is returned as it was passed.
applyDiscount(amount, discountPercent) ==
    IF ~applyDiscount_args_ok(amount, discountPercent) THEN amount * 100
    ELSE discounted(amount, discountPercent)

----------------------------------------------------------------------------
(* Inputs *)

MaxOps == 3

\* a candidate as the caller builds it from a product: the product fixes name, price and image
ProductName(id) == IF id = 2 THEN PaddedMug ELSE Tee
ProductPrice(id) == IF id = 2 THEN 19994 ELSE 100000
ProductImage(id) == IF id = 2 THEN HttpsImage ELSE IF id = 1 THEN ScriptImage ELSE NoImage

Candidate(id, variant, quantity) ==
    [id |-> id, name |-> ProductName(id), price |-> ProductPrice(id),
     quantity |-> quantity, image |-> ProductImage(id), variant |-> variant]

ColorRed == VObject(<< <<Color, Red>> >>)
ColorBoldRed == VObject(<< <<Color, BoldRed>> >>)
ColorBlue == VObject(<< <<Color, Blue>> >>)

Variants == {VNull, VString(<<"A">>), VString(<<"B">>), ColorRed, ColorBoldRed, ColorBlue}
Quantities == {0, 1, 999, 1000}

Candidates ==
    {Candidate(1, v, q) : v \in Variants, q \in Quantities}
      \cup {Candidate(2, VNull, 1), Candidate(2, VUndefined, 998)}
      \cup {Candidate(0, VNull, 1),
            [Candidate(1, VNull, 1) EXCEPT !.name = OnlyTag],
            [Candidate(1, VNull, 1) EXCEPT !.price = -1]}

\* the arguments of removeItem and updateQuantity
KeyIds == {0, 1, 2, 101}
KeyVariants == {VNull, VString(<<"A">>), ColorRed}
NewQuantities == {0, 5, 1000}

\* the caller first stocks the cart with this many distinct products, one addItem
\* call each, and then makes up to MaxOps arbitrary calls
StockedSizes == {0, MAX_CART_SIZE - 1, MAX_CART_SIZE}
StockProduct(n) == Candidate(100 + n, VNull, 1)

NoCall == [op |-> "none", err |-> "", input |-> Candidate(0, VNull, 0)]
NoCalc ==
    [fn |-> "none", items |-> NotAnArray, amount |-> 0, discount |-> 0, tax |-> 0,
     shipping |-> 0, result |-> 0]

\* the arguments of calculateTotal and applyDiscount
Percents == {-10, 0, 10, 20, 100, 150}
ShippingFees == {-100, 0, 500, 100000, 100001}
Amounts == {-100, 0, 1999, 10000}
CalcQuantities == {1, 2}

----------------------------------------------------------------------------
(* The caller's cart under a sequence of cart-core calls *)

Init ==
    /\ cart = <<>>
    /\ arg = <<>>
    /\ pre = <<>>
    /\ ret = NoCall
    /\ ops = 0
    /\ calc = NoCalc
    /\ limiter = Unused
    /\ server = Unused
    /\ tasks = Unused
    /\ local = Unused
    /\ provider = Unused

Call(op, input, outcome) ==
    /\ pre' = cart
    /\ cart' = outcome.cart
    /\ arg' = outcome.arg
    /\ ret' = [op |-> op, err |-> outcome.err, input |-> input]
    /\ UNCHANGED <<calc, limiter, server, tasks, local, provider>>

\* stocking: addItem of the next product not yet in the cart
StockCart ==
    /\ ops = 0
    /\ Len(cart) < MAX_CART_SIZE
    /\ Call("addItem", StockProduct(Len(cart) + 1), addItem(cart, StockProduct(Len(cart) + 1)))
    /\ UNCHANGED ops

Apply(op, input, outcome) ==
    /\ ops < MaxOps
    /\ ops = 0 => Len(cart) \in StockedSizes
    /\ Call(op, input, outcome)
    /\ ops' = ops + 1

AddItem ==
    \E product \in Candidates :
        Apply("addItem", product, addItem(cart, product))

RemoveItem ==
    \E id \in KeyIds, variant \in KeyVariants :
        Apply("removeItem", Candidate(id, variant, 0), removeItem(cart, id, variant))

UpdateQuantity ==
    \E id \in KeyIds, variant \in KeyVariants, quantity \in NewQuantities :
        Apply("updateQuantity", Candidate(id, variant, quantity),
              updateQuantity(cart, id, variant, quantity))

ClearCart ==
    Apply("clearCart", Candidate(0, VNull, 0), Outcome("", clearCart, cart))

Next == StockCart \/ AddItem \/ RemoveItem \/ UpdateQuantity \/ ClearCart

Spec == Init /\ [][Next]_vars

----------------------------------------------------------------------------
(* The monetary functions applied to a cart built by addItem *)

InitCalc ==
    /\ \E q1 \in CalcQuantities \cup {0}, q2 \in CalcQuantities \cup {0} :
         LET c1 == IF q1 = 0 THEN <<>> ELSE addItem(<<>>, Candidate(1, VNull, q1)).cart
             c2 == IF q2 = 0 THEN c1 ELSE addItem(c1, Candidate(2, VNull, q2)).cart
         IN cart = c2
    /\ arg = cart
    /\ pre = cart
    /\ ret = NoCall
    /\ ops = 0
    /\ calc = NoCalc
    /\ limiter = Unused
    /\ server = Unused
    /\ tasks = Unused
    /\ local = Unused
    /\ provider = Unused

CalculateTotal ==
    \E a \in {AnArray(cart), NotAnArray}, discount \in Percents, tax \in Percents,
       shipping \in ShippingFees :
        /\ calc' = [fn |-> "calculateTotal", items |-> a, amount |-> 0,
                    discount |-> discount, tax |-> tax, shipping |-> shipping,
                    result |-> calculateTotal(a, discount, tax, shipping)]
        /\ UNCHANGED <<cartVars, limiter, server, tasks, local, provider>>

ApplyDiscount ==
    \E amount \in Amounts, discountPercent \in Percents :
        /\ calc' = [fn |-> "applyDiscount", items |-> NotAnArray, amount |-> amount,
                    discount |-> discountPercent, tax |-> 0, shipping |-> 0,
                    result |-> applyDiscount(amount, discountPercent)]
        /\ UNCHANGED <<cartVars, limiter, server, tasks, local, provider>>

NextCalc == CalculateTotal \/ ApplyDiscount

SpecCalc == InitCalc /\ [][NextCalc]_vars

----------------------------------------------------------------------------
(* Vocabulary of the properties *)

\* a candidate every field of which is inside its documented range
WellFormed(product) ==
    /\ product.id >= 1
    /\ sanitize_text(product.name) # <<>>
    /\ product.price >= 0
    /\ product.quantity \in MIN_QUANTITY..MAX_QUANTITY

\* the positions of the entries stored under the candidate's (id, variant)
MatchesOf(c, product) ==
    {i \in DOMAIN c :
        c[i].id = product.id /\ c[i].variant = validators_variant(product.variant)}

DistinctEntries(c) ==
    \A i, j \in DOMAIN c :
        i # j => ~(c[i].id = c[j].id /\ c[i].variant = c[j].variant)

\* the entries other than position i are the same in both carts
SameElsewhere(c, d, i) ==
    /\ Len(c) = Len(d)
    /\ \A j \in DOMAIN c : j # i => c[j] = d[j]

\* C1: starting from the empty cart, after any sequence of addItem, removeItem,
\* updateQuantity and clearCart calls the cart holds at most MAX_CART_SIZE entries.
C1_CartSizeBounded == Len(cart) <= MAX_CART_SIZE

C1_Witness ==
    /\ ops > 0
    /\ ret.op = "addItem" /\ ret.err = ""
    /\ Len(pre) = MAX_CART_SIZE - 1
    /\ Len(cart) = MAX_CART_SIZE

\* C2: addItem on a cart of 50 distinct entries fails with CART_FULL and leaves the
\* cart as it was when the (well-formed) candidate matches no entry, and succeeds,
\* still with 50 entries and the matching entry's quantity raised by the candidate's,
\* when it matches an entry and the summed quantity is at most 999.
C2_FullCartAddItem ==
    (/\ ret.op = "addItem"
     /\ Len(pre) = MAX_CART_SIZE
     /\ DistinctEntries(pre)
     /\ WellFormed(ret.input))
    => /\ MatchesOf(pre, ret.input) = {} => (ret.err = "CART_FULL" /\ cart = pre)
       /\ \A i \in MatchesOf(pre, ret.input) :
            pre[i].quantity + ret.input.quantity <= MAX_QUANTITY
            => /\ ret.err = ""
               /\ SameElsewhere(cart, pre, i)
               /\ cart[i].quantity = pre[i].quantity + ret.input.quantity

C2_Witness ==
    /\ ret.op = "addItem" /\ ret.err = ""
    /\ Len(pre) = MAX_CART_SIZE
    /\ WellFormed(ret.input)
    /\ \E i \in MatchesOf(pre, ret.input) :
         cart[i].quantity = pre[i].quantity + ret.input.quantity

\* the companion case of C2: a 51st distinct product is refused
C2_WitnessCartFull ==
    /\ ret.op = "addItem" /\ ret.err = "CART_FULL"
    /\ Len(pre) = MAX_CART_SIZE
    /\ MatchesOf(pre, ret.input) = {}

\* C3: for well-formed candidates A and B with equal (id, variant) and
\* A.quantity + B.quantity <= 999, addItem(addItem([], A), B) has exactly one entry,
\* whose quantity is A.quantity + B.quantity.
C3_MergeSumsQuantity ==
    \A A \in Candidates :
        (/\ ret.op = "addItem"
         /\ WellFormed(A) /\ WellFormed(ret.input)
         /\ addItem(<<>>, A).err = ""
         /\ pre = addItem(<<>>, A).cart
         /\ A.id = ret.input.id /\ A.variant = ret.input.variant
         /\ A.quantity + ret.input.quantity <= MAX_QUANTITY)
        => /\ ret.err = ""
           /\ Len(cart) = 1
           /\ cart[1].quantity = A.quantity + ret.input.quantity

C3_Witness ==
    /\ ret.op = "addItem" /\ ret.err = ""
    /\ Len(pre) = 1 /\ Len(cart) = 1
    /\ WellFormed(ret.input)
    /\ pre[1].id = ret.input.id
    /\ ret.input.variant.kind = "object"
    /\ cart[1].quantity = pre[1].quantity + ret.input.quantity

\* C4: when the (well-formed) candidate of addItem matches an entry and
\* existing.quantity + candidate.quantity exceeds 999, addItem fails with
\* QUANTITY_LIMIT and the cart, the existing entry's quantity included, is unchanged.
C4_QuantityLimitLeavesCart ==
    (/\ ret.op = "addItem"
     /\ WellFormed(ret.input)
     /\ \E i \in MatchesOf(pre, ret.input) :
          pre[i].quantity + ret.input.quantity > MAX_QUANTITY)
    => /\ ret.err = "QUANTITY_LIMIT"
       /\ cart = pre
       /\ arg = pre

C4_Witness ==
    /\ ret.op = "addItem" /\ ret.err = "QUANTITY_LIMIT"
    /\ WellFormed(ret.input)
    /\ \E i \in MatchesOf(pre, ret.input) :
         /\ pre[i].quantity + ret.input.quantity > MAX_QUANTITY
         /\ cart[i].quantity = pre[i].quantity

\* C5: two well-formed candidates with the same product id and distinct variants,
\* both added to the empty cart with addItem, give two distinct entries.
C5_DistinctVariantsStaySeparate ==
    \A A \in Candidates :
        (/\ ret.op = "addItem"
         /\ WellFormed(A) /\ WellFormed(ret.input)
         /\ addItem(<<>>, A).err = ""
         /\ pre = addItem(<<>>, A).cart
         /\ A.id = ret.input.id /\ A.variant # ret.input.variant)
        => /\ Len(cart) = 2
           /\ DistinctEntries(cart)

\* C6: addItem never mutates its input: after the call returns or fails, the array
\* that was passed and every entry in it are as they were before the call.
C6_AddItemLeavesInput == ret.op = "addItem" => arg = pre

\* C7: a quantity outside 1..999 (0 included) given to addItem or updateQuantity is
\* rejected with an error and leaves the cart unchanged, never coerced into range;
\* a candidate with any failing field is rejected as a whole.
C7_OutOfRangeQuantityRejected ==
    (\/ /\ ret.op \in {"addItem", "updateQuantity"}
        /\ ret.input.quantity \notin MIN_QUANTITY..MAX_QUANTITY
     \/ /\ ret.op = "addItem"
        /\ ~WellFormed(ret.input))
    => /\ ret.err # ""
       /\ cart = pre

\* the sum of price x quantity over the entries, in cents
RECURSIVE SubtotalUpTo(_, _)
SubtotalUpTo(c, n) ==
    IF n = 0 THEN 0 ELSE SubtotalUpTo(c, n - 1) + c[n].price * c[n].quantity

SubtotalOf(a) == IF a.isArray THEN SubtotalUpTo(a.items, Len(a.items)) ELSE 0

Clamp(x, lo, hi) == IF x < lo THEN lo ELSE IF x > hi THEN hi ELSE x

\* r cents is x (in 1/10000 cent) rounded to the cent, halves upwards
IsRoundedToCents(r, x) == r * 10000 - 5000 <= x /\ x < r * 10000 + 5000

\* taxable + tax + shipping in 1/10000 cent, for discount d and tax t in percent
\* and a shipping fee in cents
TotalOf(subtotal, d, t, shipping) ==
    LET taxable == subtotal * 10000 - subtotal * d * 100
        tax == (taxable \div 100) * t
    IN taxable + tax + shipping * 10000

InPercentRange(x) == 0 <= x /\ x <= MAX_PERCENT
InShippingRange(x) == 0 <= x /\ x <= MAX_SHIPPING * 100

\* C8 as stated: calculateTotal is the rounded taxable + tax + shipping with the
\* percentages clamped to [0,100] and the fee clamped to [0,1000], also when a
\* supplied percentage or fee lies outside its range.
C8_TotalClampsArguments ==
    calc.fn = "calculateTotal"
    => IsRoundedToCents(calc.result,
           TotalOf(SubtotalOf(calc.items),
                   Clamp(calc.discount, 0, MAX_PERCENT),
                   Clamp(calc.tax, 0, MAX_PERCENT),
                   Clamp(calc.shipping, 0, MAX_SHIPPING * 100)))

\* C8 as amended: with both percentages in [0,100] and the fee in [0,1000],
\* calculateTotal is the rounded taxable + tax + shipping over the subtotal (0 for
\* an empty or non-array cart), 104 for one item priced 100, quantity 1, with
\* arguments 10, 10, 5; with any of the three outside its range it returns 0.
C8_TotalInRangeElseZero ==
    calc.fn = "calculateTotal"
    => /\ (InPercentRange(calc.discount) /\ InPercentRange(calc.tax)
             /\ InShippingRange(calc.shipping))
          => IsRoundedToCents(calc.result,
                 TotalOf(SubtotalOf(calc.items), calc.discount, calc.tax, calc.shipping))
       /\ ~(InPercentRange(calc.discount) /\ InPercentRange(calc.tax)
              /\ InShippingRange(calc.shipping))
          => calc.result = 0
       /\ (/\ calc.items.isArray
           /\ Len(calc.items.items) = 1
           /\ calc.items.items[1].price = 10000
           /\ calc.items.items[1].quantity = 1
           /\ calc.discount = 10 /\ calc.tax = 10 /\ calc.shipping = 500)
          => calc.result = 10400

C8_Witness ==
    /\ calc.fn = "calculateTotal"
    /\ calc.items.isArray
    /\ Len(calc.items.items) = 2
    /\ calc.discount = 10 /\ calc.tax = 20 /\ calc.shipping = 500
    /\ calc.result > SubtotalOf(calc.items)

\* the out-of-range case of the amended C8
C8_WitnessOutOfRange ==
    /\ calc.fn = "calculateTotal"
    /\ SubtotalOf(calc.items) > 0
    /\ calc.discount = 150 /\ calc.tax = 10 /\ calc.shipping = 500
    /\ calc.result = 0

C10_DiscountAbove100ReturnsAmount ==
    (calc.fn = "applyDiscount" /\ calc.amount >= 0)
    => /\ calc.discount > 100 => calc.result = calc.amount * 100
       /\ (calc.discount >= 0 /\ calc.discount <= 100)
          => calc.result * 100 = calc.amount * 100 * (100 - calc.discount)
       /\ (calc.amount = 10000 /\ calc.discount = 150) => calc.result = 10000 * 100
       /\ (calc.amount = 10000 /\ calc.discount = 20) => calc.result = 8000 * 100

C10_Witness ==
    /\ calc.fn = "applyDiscount"
    /\ calc.amount = 10000
    /\ calc.discount = 20
    /\ calc.result = 8000 * 100

\* the other example of C10
C10_WitnessAbove100 ==
    /\ calc.fn = "applyDiscount"
    /\ calc.amount = 10000
    /\ calc.discount = 150
    /\ calc.result = 10000 * 100

----------------------------------------------------------------------------
(* Part 2.  RateLimiter (security/sanitizer, src/unnamed/part_002:279-313)  *)
(*                                                                         *)
(* Date.now() is the variable field limiter.now, in milliseconds; it never  *)
(* runs backwards.  this.requests is a function from the action to its      *)
(* array of timestamps; an action the object has no property for yet has    *)
(* the empty array, which is what canMakeRequest makes of it before use.    *)

\* the limiter the test suite builds: new RateLimiter(3, 1000)
maxRequests == 3
timeWindowMs == 1000

MaxCalls == 5

Actions == {"default", "action1"}
\* time that passes between one call of the limiter and the next
Delays == {0, 400, 600}

CeilDiv(x, d) == (x + d - 1) \div d

\* this.requests[key].filter(time => now - time < this.timeWindowMs)
recentRequests_inclusive(history, now) ==
    SelectSeq(history, LAMBDA time : now - time <= timeWindowMs)

recentRequests(history, now) ==
    SelectSeq(history, LAMBDA time : now - time < timeWindowMs)

\* this.requests[key].length >= this.maxRequests
limitReached_strict(history) == Len(history) > maxRequests

limitReached(history) == Len(history) >= maxRequests

canMakeRequest(requests, action, now) ==
    LET recent == recentRequests(requests[action], now)
    IN  IF limitReached(recent)
        THEN [ok |-> FALSE,
              requests |-> [requests EXCEPT ![action] = recent],
              waitTime |-> CeilDiv(timeWindowMs - (now - recent[1]), 1000)]
        ELSE [ok |-> TRUE,
              requests |-> [requests EXCEPT ![action] = Append(recent, now)],
              waitTime |-> 0]

reset_all(requests, action) == [a \in DOMAIN requests |-> <<>>]

reset(requests, action) == [requests EXCEPT ![action] = <<>>]

\* The log kept beside the object: per action, the times of the calls that
\* were admitted (ever, and since the last reset of the action) and of the
\* calls that were refused; and the last call with this.requests as it was
\* when the call was made.
NoRequests == [a \in Actions |-> <<>>]

InitRate ==
    /\ limiter = [now |-> 0, requests |-> NoRequests, admitted |-> NoRequests,
                  sinceReset |-> NoRequests, refused |-> NoRequests, calls |-> 0,
                  last |-> [op |-> "none", action |-> "default", ok |-> TRUE,
                            waitTime |-> 0, before |-> NoRequests]]
    /\ cart = <<>>
    /\ arg = <<>>
    /\ pre = <<>>
    /\ ret = NoCall
    /\ ops = 0
    /\ calc = NoCalc
    /\ server = Unused
    /\ tasks = Unused
    /\ local = Unused
    /\ provider = Unused

Log(log, action, cond, time) ==
    IF cond THEN [log EXCEPT ![action] = Append(@, time)] ELSE log

CanMakeRequest ==
    \E action \in Actions, delay \in Delays :
        LET now == limiter.now + delay
            r == canMakeRequest(limiter.requests, action, now)
        IN  /\ limiter.calls < MaxCalls
            /\ limiter' =
                 [now |-> now,
                  requests |-> r.requests,
                  admitted |-> Log(limiter.admitted, action, r.ok, now),
                  sinceReset |-> Log(limiter.sinceReset, action, r.ok, now),
                  refused |-> Log(limiter.refused, action, ~r.ok, now),
                  calls |-> limiter.calls + 1,
                  last |-> [op |-> "canMakeRequest", action |-> action, ok |-> r.ok,
                            waitTime |-> r.waitTime, before |-> limiter.requests]]
            /\ UNCHANGED <<clientVars, server, tasks, local, provider>>

Reset ==
    \E action \in Actions :
        /\ limiter.calls < MaxCalls
        /\ limiter' =
             [limiter EXCEPT
                !.requests = reset(limiter.requests, action),
                !.sinceReset = [@ EXCEPT ![action] = <<>>],
                !.calls = @ + 1,
                !.last = [op |-> "reset", action |-> action, ok |-> TRUE,
                          waitTime |-> 0, before |-> limiter.requests]]
        /\ UNCHANGED <<clientVars, server, tasks, local, provider>>

NextRate == CanMakeRequest \/ Reset

SpecRate == InitRate /\ [][NextRate]_vars

\* ---- vocabulary of the limiter's properties ----

\* how many of the logged times lie in the trailing window that ends at now
InWindow(log, now) ==
    Cardinality({i \in DOMAIN log : now - log[i] < timeWindowMs})

Front(s) == SubSeq(s, 1, Len(s) - 1)

\* the log of the last call's action as it was when that call was made
Prior(log) ==
    IF limiter.last.op = "canMakeRequest" /\ limiter.last.ok
    THEN Front(log[limiter.last.action])
    ELSE log[limiter.last.action]

IsSuffix(s, t) ==
    /\ Len(s) <= Len(t)
    /\ s = SubSeq(t, Len(t) - Len(s) + 1, Len(t))

\* C11 as stated: over all the requests ever admitted for an action, those
\* of the trailing window are at most maxRequests; a call that finds fewer
\* there is admitted, a call that finds maxRequests there is refused.
C11_WindowNeverExceeded ==
    /\ \A a \in Actions : InWindow(limiter.admitted[a], limiter.now) <= maxRequests
    /\ limiter.last.op = "canMakeRequest" =>
         (limiter.last.ok <=>
            InWindow(Prior(limiter.admitted), limiter.now) < maxRequests)

\* C11 amended: the same, counting the requests admitted since the last
\* reset of the action (reset forgets the action's history, so that further
\* requests are admitted inside the same window).
C11_WindowSinceReset ==
    /\ \A a \in Actions : InWindow(limiter.sinceReset[a], limiter.now) <= maxRequests
    /\ limiter.last.op = "canMakeRequest" =>
         (limiter.last.ok <=>
            InWindow(Prior(limiter.sinceReset), limiter.now) < maxRequests)

\* maxRequests calls were admitted inside one window and the next one is refused
C11_Witness ==
    /\ limiter.last.op = "canMakeRequest"
    /\ ~limiter.last.ok
    /\ limiter.last.waitTime >= 1
    /\ InWindow(limiter.sinceReset[limiter.last.action], limiter.now) = maxRequests

\* C12: a call made when timeWindowMs or more have passed since the last
\* admitted request of its action is admitted, whatever calls were refused
\* in between; a refused call adds no entry to the action's history.
C12_AdmittedAfterWindow ==
    limiter.last.op = "canMakeRequest" =>
        /\ (/\ Prior(limiter.admitted) # <<>>
            /\ limiter.now - Prior(limiter.admitted)[Len(Prior(limiter.admitted))]
                 >= timeWindowMs)
              => limiter.last.ok
        /\ ~limiter.last.ok =>
              IsSuffix(limiter.requests[limiter.last.action],
                       limiter.last.before[limiter.last.action])

\* the action was at its cap, a call was refused after the last admitted one,
\* and the call made exactly timeWindowMs after the last admitted one is admitted
C12_Witness ==
    /\ limiter.last.op = "canMakeRequest"
    /\ limiter.last.ok
    /\ Len(limiter.last.before[limiter.last.action]) = maxRequests
    /\ limiter.now - Prior(limiter.admitted)[Len(Prior(limiter.admitted))] = timeWindowMs
    /\ \E i \in DOMAIN limiter.refused[limiter.last.action] :
          limiter.refused[limiter.last.action][i]
             > Prior(limiter.admitted)[Len(Prior(limiter.admitted))]

\* C13: a call of canMakeRequest or reset leaves the history of every other
\* action as it was; reset empties the history of its own action, and a call
\* of canMakeRequest that finds its action's history empty is admitted.
C13_ActionsIndependent ==
    /\ \A a \in Actions :
          a # limiter.last.action => limiter.requests[a] = limiter.last.before[a]
    /\ limiter.last.op = "reset" => limiter.requests[limiter.last.action] = <<>>
    /\ (/\ limiter.last.op = "canMakeRequest"
        /\ limiter.last.before[limiter.last.action] = <<>>) => limiter.last.ok

\* an action at its cap is reset while another action has requests on record
C13_Witness ==
    /\ limiter.last.op = "reset"
    /\ Len(limiter.last.before[limiter.last.action]) = maxRequests
    /\ \E a \in Actions :
          a # limiter.last.action /\ limiter.requests[a] # <<>>

----------------------------------------------------------------------------
(* Part 3.  The in-memory database (src/server/middleware/validation.js,    *)
(* 420-735) and the GraphQL resolvers over it (typeDefs.js, 171-679).       *)
(*                                                                         *)
(*  - storage.products and storage.discounts are functions from the Map key *)
(*    to the fields the resolvers read or write; storage.carts and          *)
(*    storage.orders are the sequences of the Maps' values in insertion     *)
(*    order, which is the order Array.from(map.values()) gives; a cart is   *)
(*    never deleted, so its place in the sequence stands for its id key;    *)
(*  - uuidv4() returns a value never returned before: the n-th call gives n;*)
(*  - amounts of money are JavaScript numbers: a count of cents, or NaN;    *)
(*  - timestamps are not modelled, and no discount code has expired (the    *)
(*    seeded codes expire 30 days after start-up).                          *)

NaN == [nan |-> TRUE, n |-> 0]
Num(n) == [nan |-> FALSE, n |-> n]

\* a + b
jsAdd(a, b) == IF a.nan \/ b.nan THEN NaN ELSE Num(a.n + b.n)
\* a * 0.1, exact for the whole amounts the seeded prices give
jsTimesTenth(a) == IF a.nan THEN NaN ELSE Num(a.n \div 10)
\* a >= k: false when a is NaN
jsAtLeast(a, k) == ~a.nan /\ a.n >= k

\* item.subtotal: the object's own property in cents; undefined, which a sum
\* turns into NaN, when the object has no such property
item_subtotal(item) ==
    IF "subtotal" \in DOMAIN item THEN Num(item.subtotal) ELSE NaN

\* JSON.stringify of a variant; undefined for undefined
JSON_stringify(v) ==
    CASE v.kind = "undefined" -> <<"undefined">>
      [] v.kind = "null" -> <<"null">>
      [] v.kind = "string" -> <<"\"", v.str, "\"">>
      [] OTHER -> <<"{", v.entries, "}">>

\* String.prototype.toUpperCase on the letters the codes are written in
UpperOf(ch) ==
    CASE ch = "s" -> "S" [] ch = "a" -> "A" [] ch = "v" -> "V" [] ch = "e" -> "E"
      [] ch = "b" -> "B" [] OTHER -> ch

toUpperCase(s) == [i \in DOMAIN s |-> UpperOf(s[i])]

\* sanitizeInput: input.trim().replace(/<[^>]*>/g, '')
sanitizeInput(s) == StripTagsFrom(Trim(s), 1)

SAVE10 == <<"S", "A", "V", "E", "1", "0">>
SAVE20 == <<"S", "A", "V", "E", "2", "0">>
WELCOME == <<"W", "E", "L", "C", "O", "M", "E">>

\* seedData(): prices in cents
seedData ==
    [products |->
        [id \in {"1", "2", "3", "4"} |->
            CASE id = "1" -> [price |-> 99900, stock |-> 50]
              [] id = "2" -> [price |-> 129900, stock |-> 30]
              [] id = "3" -> [price |-> 24900, stock |-> 100]
              [] OTHER -> [price |-> 39900, stock |-> 75]],
     discounts |->
        [code \in {SAVE10, SAVE20, WELCOME} |->
            CASE code = SAVE10 -> [id |-> "1", percentage |-> 10, maxUses |-> 100, usedCount |-> 0]
              [] code = SAVE20 -> [id |-> "2", percentage |-> 20, maxUses |-> 50, usedCount |-> 0]
              [] OTHER -> [id |-> "3", percentage |-> 15, maxUses |-> 200, usedCount |-> 0]],
     carts |-> <<>>,
     orders |-> <<>>,
     uuids |-> 0]

\* ---- db.products ----

\* storage.products.get(id) || null: whether there is such a product
products_has(db, id) == id \in DOMAIN db.products

decreaseStock_floored(db, id, quantity) ==
    IF products_has(db, id)
    THEN [db EXCEPT !.products[id].stock = IF @ < quantity THEN 0 ELSE @ - quantity]
    ELSE db

decreaseStock(db, id, quantity) ==
    IF products_has(db, id)
    THEN [db EXCEPT !.products[id].stock = @ - quantity]
    ELSE db

\* ---- db.carts ----

RECURSIVE FirstCartOf(_, _, _)
FirstCartOf(carts, userId, i) ==
    IF i > Len(carts) THEN 0
    ELSE IF carts[i].userId = userId THEN i
    ELSE FirstCartOf(carts, userId, i + 1)

\* the place of the first cart of the user, 0 for null
carts_findByUserId(db, userId) == FirstCartOf(db.carts, userId, 1)

carts_create(db, userId) ==
    [db EXCEPT
       !.carts = Append(@, [id |-> db.uuids + 1, userId |-> userId,
                            items |-> <<>>, discount |-> 0]),
       !.uuids = @ + 1]

RECURSIVE FindItemFrom(_, _, _)
FindItemFrom(items, itemData, i) ==
    IF i > Len(items) THEN 0
    ELSE IF /\ items[i].productId = itemData.productId
            /\ JSON_stringify(items[i].variant) = JSON_stringify(itemData.variant)
         THEN i
    ELSE FindItemFrom(items, itemData, i + 1)

carts_addItem(db, c, itemData) ==
    LET existingItemIndex == FindItemFrom(db.carts[c].items, itemData, 1)
    IN  IF existingItemIndex # 0
        THEN [db EXCEPT !.carts[c].items[existingItemIndex].quantity = @ + itemData.quantity]
        ELSE [db EXCEPT
                !.carts[c].items =
                    Append(@, [id |-> db.uuids + 1,
                               productId |-> itemData.productId,
                               quantity |-> itemData.quantity,
                               variant |-> IF Truthy(itemData.variant)
                                           THEN itemData.variant ELSE VNull,
                               price |-> itemData.price]),
                !.uuids = @ + 1]

\* cart.items.find(i => i.id === itemId): its place, 0 for undefined
RECURSIVE ItemById(_, _, _)
ItemById(items, itemId, i) ==
    IF i > Len(items) THEN 0
    ELSE IF items[i].id = itemId THEN i
    ELSE ItemById(items, itemId, i + 1)

carts_updateItemQuantity(db, c, itemId, quantity) ==
    [db EXCEPT !.carts[c].items[ItemById(db.carts[c].items, itemId, 1)].quantity = quantity]

carts_removeItem(db, c, itemId) ==
    [db EXCEPT !.carts[c].items = SelectSeq(@, LAMBDA i : i.id # itemId)]

carts_removeMultipleItems_all(db, c, itemIds) ==
    [db EXCEPT !.carts[c].items = <<>>]

carts_removeMultipleItems(db, c, itemIds) ==
    [db EXCEPT !.carts[c].items = SelectSeq(@, LAMBDA i : i.id \notin itemIds)]

carts_clear(db, c) ==
    [db EXCEPT !.carts[c].items = <<>>, !.carts[c].discount = 0]

carts_applyDiscount(db, c, percentage) ==
    [db EXCEPT !.carts[c].discount = percentage]

carts_removeDiscount(db, c) ==
    [db EXCEPT !.carts[c].discount = 0]

\* ---- db.discounts ----

discounts_has(db, code) == toUpperCase(code) \in DOMAIN db.discounts

\* findByCode reporting every code it finds as valid
discounts_valid_always(db, code) == TRUE

\* the valid field of findByCode's result
discounts_valid(db, code) ==
    LET discount == db.discounts[toUpperCase(code)]
    IN  ~(discount.usedCount >= discount.maxUses)

discounts_incrementUsage(db, id) ==
    [db EXCEPT !.discounts =
        [code \in DOMAIN @ |->
            IF @[code].id = id THEN [@[code] EXCEPT !.usedCount = @ + 1] ELSE @[code]]]

\* ---- db.orders ----

orders_create(db, orderData) ==
    [db EXCEPT
       !.orders = Append(@, [id |-> db.uuids + 1, userId |-> orderData.userId,
                             items |-> orderData.items, subtotal |-> orderData.subtotal,
                             tax |-> orderData.tax, shipping |-> orderData.shipping,
                             total |-> orderData.total, status |-> "pending"]),
       !.uuids = @ + 1]

\* ---- the resolvers ----

\* context.user is null for a request without a valid token (server.js:71,80)
NoUser == "null"
\* the ids of the users a context can carry: the seeded user-1, and a second
\* user as a users table with more than the seeded row gives (the resolvers
\* take whatever user the context holds)
Users == {"user-1", "user-2"}

NoValue ==
    [cart |-> 0, valid |-> FALSE, percentage |-> 0, success |-> FALSE,
     orderId |-> 0, total |-> Num(0)]

\* a resolver ends by throwing (the database as it is then) or by returning
Throw(db, code, message) == [db |-> db, code |-> code, err |-> message, value |-> NoValue]
Return(db, value) == [db |-> db, code |-> "", err |-> "", value |-> value]
ReturnCart(db, c) == Return(db, [NoValue EXCEPT !.cart = c])

\* requireAuth: whether it returns (it throws otherwise)
requireAuth_open(context) == TRUE

requireAuth(context) == context.user # NoUser

NotLoggedIn(db) == Throw(db, "UNAUTHENTICATED", "You must be logged in")
UserInputError(db, message) == Throw(db, "BAD_USER_INPUT", message)

\* let cart = findByUserId(user.id); if (!cart) cart = create({ userId: user.id })
WithCart(db, userId) ==
    IF carts_findByUserId(db, userId) # 0 THEN db ELSE carts_create(db, userId)

getCart(db, context, input) ==
    IF ~requireAuth(context) THEN NotLoggedIn(db)
    ELSE LET db1 == WithCart(db, context.user)
         IN  ReturnCart(db1, carts_findByUserId(db1, context.user))

validateDiscountCode(db, context, input) ==
    IF ~requireAuth(context) THEN NotLoggedIn(db)
    ELSE LET sanitizedCode == toUpperCase(sanitizeInput(input.code))
         IN  IF ~discounts_has(db, sanitizedCode) THEN Return(db, NoValue)
             ELSE IF db.discounts[sanitizedCode].usedCount >= db.discounts[sanitizedCode].maxUses
                  THEN Return(db, NoValue)
             ELSE Return(db, [NoValue EXCEPT
                                !.valid = TRUE,
                                !.percentage = db.discounts[sanitizedCode].percentage])

addToCart(db, context, input) ==
    IF ~requireAuth(context) THEN NotLoggedIn(db)
    ELSE IF input.quantity < 1 \/ input.quantity > 999
         THEN UserInputError(db, "Quantity must be between 1 and 999")
    ELSE IF ~products_has(db, input.productId) THEN UserInputError(db, "Product not found")
    ELSE IF db.products[input.productId].stock < input.quantity
         THEN UserInputError(db, "Insufficient stock")
    ELSE LET db1 == WithCart(db, context.user)
             c == carts_findByUserId(db1, context.user)
         IN  ReturnCart(carts_addItem(db1, c,
                           [productId |-> input.productId, quantity |-> input.quantity,
                            variant |-> input.variant,
                            price |-> db.products[input.productId].price]), c)

updateCartItem(db, context, input) ==
    LET c == carts_findByUserId(db, context.user)
        i == ItemById(db.carts[c].items, input.itemId, 1)
    IN  IF ~requireAuth(context) THEN NotLoggedIn(db)
        ELSE IF input.quantity < 1 \/ input.quantity > 999
             THEN UserInputError(db, "Quantity must be between 1 and 999")
        ELSE IF c = 0 THEN UserInputError(db, "Cart not found")
        ELSE IF i = 0 THEN UserInputError(db, "Item not found in cart")
        ELSE IF db.products[db.carts[c].items[i].productId].stock < input.quantity
             THEN UserInputError(db, "Insufficient stock")
        ELSE ReturnCart(carts_updateItemQuantity(db, c, input.itemId, input.quantity), c)

removeFromCart(db, context, input) ==
    LET c == carts_findByUserId(db, context.user)
    IN  IF ~requireAuth(context) THEN NotLoggedIn(db)
        ELSE IF c = 0 THEN UserInputError(db, "Cart not found")
        ELSE ReturnCart(carts_removeItem(db, c, input.itemId), c)

removeMultipleItems(db, context, input) ==
    LET c == carts_findByUserId(db, context.user)
    IN  IF ~requireAuth(context) THEN NotLoggedIn(db)
        ELSE IF c = 0 THEN UserInputError(db, "Cart not found")
        ELSE ReturnCart(carts_removeMultipleItems(db, c, input.itemIds), c)

clearCartResolver(db, context, input) ==
    LET c == carts_findByUserId(db, context.user)
    IN  IF ~requireAuth(context) THEN NotLoggedIn(db)
        ELSE IF c = 0 THEN UserInputError(db, "Cart not found")
        ELSE ReturnCart(carts_clear(db, c), c)

applyDiscountResolver(db, context, input) ==
    LET sanitizedCode == toUpperCase(sanitizeInput(input.code))
        c == carts_findByUserId(db, context.user)
    IN  IF ~requireAuth(context) THEN NotLoggedIn(db)
        ELSE IF ~discounts_has(db, sanitizedCode) \/ ~discounts_valid(db, sanitizedCode)
             THEN UserInputError(db, "Invalid discount code")
        ELSE IF c = 0 THEN UserInputError(db, "Cart not found")
        ELSE ReturnCart(
                discounts_incrementUsage(
                    carts_applyDiscount(db, c, db.discounts[sanitizedCode].percentage),
                    db.discounts[sanitizedCode].id), c)

removeDiscount(db, context, input) ==
    LET c == carts_findByUserId(db, context.user)
    IN  IF ~requireAuth(context) THEN NotLoggedIn(db)
        ELSE IF c = 0 THEN UserInputError(db, "Cart not found")
        ELSE ReturnCart(carts_removeDiscount(db, c), c)

\* ---- checkout ----

\* cart.items.filter(item => cartItemIds.includes(item.id)); cartItemIds is
\* modelled as the set of its elements
selectedItemsOf(db, c, cartItemIds) ==
    SelectSeq(db.carts[c].items, LAMBDA item : item.id \in cartItemIds)

\* the stock loop: the place of the first selected item the stock is short of, or 0
RECURSIVE FirstShort(_, _, _)
FirstShort(db, selectedItems, i) ==
    IF i > Len(selectedItems) THEN 0
    ELSE IF db.products[selectedItems[i].productId].stock < selectedItems[i].quantity THEN i
    ELSE FirstShort(db, selectedItems, i + 1)

\* selectedItems.reduce((sum, item) => sum + item.subtotal, 0)
RECURSIVE reduceSubtotal(_, _)
reduceSubtotal(selectedItems, sum) ==
    IF selectedItems = <<>> THEN sum
    ELSE reduceSubtotal(Tail(selectedItems), jsAdd(sum, item_subtotal(Head(selectedItems))))

\* subtotal >= 100 ? 0 : 10, in cents
shippingOf(subtotal) == IF jsAtLeast(subtotal, 100 * 100) THEN Num(0) ELSE Num(10 * 100)

\* the loop of decreaseStock calls
RECURSIVE decreaseAll(_, _)
decreaseAll(db, selectedItems) ==
    IF selectedItems = <<>> THEN db
    ELSE decreaseAll(decreaseStock(db, Head(selectedItems).productId,
                                   Head(selectedItems).quantity),
                     Tail(selectedItems))

\* checkout from the computation of the amounts to its return
placeOrder(db, userId, c, selectedItems, cartItemIds) ==
    LET subtotal == reduceSubtotal(selectedItems, Num(0))
        tax == jsTimesTenth(subtotal)
        shipping == shippingOf(subtotal)
        total == jsAdd(jsAdd(subtotal, tax), shipping)
        db1 == orders_create(db, [userId |-> userId, items |-> selectedItems,
                                  subtotal |-> subtotal, tax |-> tax,
                                  shipping |-> shipping, total |-> total])
        db2 == decreaseAll(db1, selectedItems)
        db3 == carts_removeMultipleItems(db2, c, cartItemIds)
    IN  Return(db3, [NoValue EXCEPT !.success = TRUE, !.orderId = db.uuids + 1,
                                    !.total = total])

\* a checkout that places the order before it looks at the stock
checkout_orderFirst(db, context, input) ==
    LET c == carts_findByUserId(db, context.user)
        selectedItems == selectedItemsOf(db, c, input.itemIds)
        placed == placeOrder(db, context.user, c, selectedItems, input.itemIds)
    IN  IF ~requireAuth(context) THEN NotLoggedIn(db)
        ELSE IF input.itemIds = {} THEN UserInputError(db, "No items selected for checkout")
        ELSE IF c = 0 THEN UserInputError(db, "Cart not found")
        ELSE IF selectedItems = <<>>
             THEN UserInputError(db, "Selected items not found in cart")
        ELSE IF FirstShort(db, selectedItems, 1) # 0
             THEN UserInputError(placed.db, "Insufficient stock for")
        ELSE placed

checkout(db, context, input) ==
    LET c == carts_findByUserId(db, context.user)
        selectedItems == selectedItemsOf(db, c, input.itemIds)
    IN  IF ~requireAuth(context) THEN NotLoggedIn(db)
        ELSE IF input.itemIds = {} THEN UserInputError(db, "No items selected for checkout")
        ELSE IF c = 0 THEN UserInputError(db, "Cart not found")
        ELSE IF selectedItems = <<>>
             THEN UserInputError(db, "Selected items not found in cart")
        ELSE IF FirstShort(db, selectedItems, 1) # 0
             THEN UserInputError(db, "Insufficient stock for")
        ELSE placeOrder(db, context.user, c, selectedItems, input.itemIds)

\* ---- checkout when a store call made after the order was created rejects ----
\* (context.db is handed to the resolver; the calls that follow db.orders.create
\* are decreaseStock, once for each selected item, and then removeMultipleItems.
\* No call of the in-memory database rejects after a cart was found; a store
\* that does I/O can.  A call that rejects has written nothing.)

\* the database once db.orders.create has returned
orderCreated(db, userId, selectedItems) ==
    LET subtotal == reduceSubtotal(selectedItems, Num(0))
        tax == jsTimesTenth(subtotal)
        shipping == shippingOf(subtotal)
    IN  orders_create(db, [userId |-> userId, items |-> selectedItems,
                           subtotal |-> subtotal, tax |-> tax, shipping |-> shipping,
                           total |-> jsAdd(jsAdd(subtotal, tax), shipping)])

\* the decreaseStock loop after its first k calls
RECURSIVE decreaseFirst(_, _, _)
decreaseFirst(db, selectedItems, k) ==
    IF k = 0 THEN db
    ELSE decreaseStock(decreaseFirst(db, selectedItems, k - 1),
                       selectedItems[k].productId, selectedItems[k].quantity)

\* catch (error) { console.error(...); throw error; }: begun is the database
\* when the checkout began, db the database when the call rejected
catchCheckout_rollback(begun, db) == Throw(begun, "INTERNAL_SERVER_ERROR", "store call rejected")

catchCheckout(begun, db) == Throw(db, "INTERNAL_SERVER_ERROR", "store call rejected")

\* checkout when the input.storeFails-th store call after db.orders.create rejects
checkoutStoreFails(db, context, input) ==
    LET c == carts_findByUserId(db, context.user)
        selectedItems == selectedItemsOf(db, c, input.itemIds)
    IN  IF ~requireAuth(context) THEN NotLoggedIn(db)
        ELSE IF input.itemIds = {} THEN UserInputError(db, "No items selected for checkout")
        ELSE IF c = 0 THEN UserInputError(db, "Cart not found")
        ELSE IF selectedItems = <<>>
             THEN UserInputError(db, "Selected items not found in cart")
        ELSE IF FirstShort(db, selectedItems, 1) # 0
             THEN UserInputError(db, "Insufficient stock for")
        ELSE catchCheckout(db,
                decreaseFirst(orderCreated(db, context.user, selectedItems),
                              selectedItems, input.storeFails - 1))

\* ---- Query.getProduct ----

\* catch (error) { console.error(...); throw new Error('Failed to fetch product'); }
catchGetProduct(result) ==
    IF result.err # ""
    THEN Throw(result.db, "INTERNAL_SERVER_ERROR", "Failed to fetch product")
    ELSE result

\* no requireAuth; the throw of 'Product not found' is inside the try block
getProduct(db, context, input) ==
    catchGetProduct(IF ~products_has(db, input.productId)
                    THEN UserInputError(db, "Product not found")
                    ELSE Return(db, NoValue))

\* ---- the server under a sequence of requests, one at a time ----

MaxRequests == 3

Contexts == {[user |-> u] : u \in Users \cup {NoUser}}

Input(productId, quantity, variant, itemId, itemIds, code) ==
    [productId |-> productId, quantity |-> quantity, variant |-> variant,
     itemId |-> itemId, itemIds |-> itemIds, code |-> code, storeFails |-> 0]

NoInput == Input("", 0, VUndefined, 0, {}, <<>>)

\* the arguments of the requests
ProductIds == {"1", "2", "9"}
ServerVariants == {VUndefined, VNull, VString(<<"A">>)}
AddToCartInputs ==
    {[NoInput EXCEPT !.productId = productId, !.quantity = 20, !.variant = variant] :
        productId \in ProductIds, variant \in ServerVariants}
      \cup {[NoInput EXCEPT !.productId = "2", !.quantity = quantity] :
                quantity \in {0, 1000}}
UpdateQuantities == {0, 5, 40}
Codes == {<<" ", "s", "a", "v", "e", "1", "0">>, <<"N", "O", "P", "E">>}

\* the ids a caller can name: those of the items in the carts, and 0, which is no item's
ItemIdsOf(db) ==
    UNION {{db.carts[c].items[i].id : i \in DOMAIN db.carts[c].items} : c \in DOMAIN db.carts}
ItemIdChoices(db) == ItemIdsOf(db) \cup {0}
ItemIdSetChoices(db) == SUBSET ItemIdsOf(db) \cup {{0}}

NoResponse ==
    [op |-> "none", user |-> NoUser, input |-> NoInput, code |-> "", err |-> "",
     value |-> NoValue]

\* the database at start-up, and the database after user-1 fetched the cart and
\* applied SAVE10 and user-2 put 20 of product 1 in the cart
BusyStore ==
    LET db1 == getCart(seedData, [user |-> "user-1"], NoInput).db
        db2 == applyDiscountResolver(db1, [user |-> "user-1"],
                                     Input("", 0, VUndefined, 0, {}, SAVE10)).db
    IN  addToCart(db2, [user |-> "user-2"], Input("1", 20, VUndefined, 0, {}, <<>>)).db

InitServer ==
    /\ \E db \in {seedData, BusyStore} :
          server = [db |-> db, before |-> db, resp |-> NoResponse, served |-> 0]
    /\ cart = <<>>
    /\ arg = <<>>
    /\ pre = <<>>
    /\ ret = NoCall
    /\ ops = 0
    /\ calc = NoCalc
    /\ limiter = Unused
    /\ tasks = Unused
    /\ local = Unused
    /\ provider = Unused

Serve(op, context, input, result) ==
    /\ server.served < MaxRequests
    /\ server' = [db |-> result.db,
                  before |-> server.db,
                  resp |-> [op |-> op, user |-> context.user, input |-> input,
                            code |-> result.code, err |-> result.err,
                            value |-> result.value],
                  served |-> server.served + 1]
    /\ UNCHANGED <<clientVars, limiter, tasks, local, provider>>

GetCart ==
    \E context \in Contexts :
        Serve("getCart", context, NoInput, getCart(server.db, context, NoInput))

ValidateDiscountCode ==
    \E context \in Contexts, code \in Codes :
        LET input == [NoInput EXCEPT !.code = code]
        IN  Serve("validateDiscountCode", context, input,
                  validateDiscountCode(server.db, context, input))

AddToCart ==
    \E context \in Contexts, input \in AddToCartInputs :
        Serve("addToCart", context, input, addToCart(server.db, context, input))

UpdateCartItem ==
    \E context \in Contexts, itemId \in ItemIdChoices(server.db),
       quantity \in UpdateQuantities :
        LET input == [NoInput EXCEPT !.itemId = itemId, !.quantity = quantity]
        IN  Serve("updateCartItem", context, input,
                  updateCartItem(server.db, context, input))

RemoveFromCart ==
    \E context \in Contexts, itemId \in ItemIdChoices(server.db) :
        LET input == [NoInput EXCEPT !.itemId = itemId]
        IN  Serve("removeFromCart", context, input,
                  removeFromCart(server.db, context, input))

RemoveMultipleItems ==
    \E context \in Contexts, itemIds \in ItemIdSetChoices(server.db) :
        LET input == [NoInput EXCEPT !.itemIds = itemIds]
        IN  Serve("removeMultipleItems", context, input,
                  removeMultipleItems(server.db, context, input))

ClearCartMutation ==
    \E context \in Contexts :
        Serve("clearCart", context, NoInput, clearCartResolver(server.db, context, NoInput))

ApplyDiscountMutation ==
    \E context \in Contexts, code \in Codes :
        LET input == [NoInput EXCEPT !.code = code]
        IN  Serve("applyDiscount", context, input,
                  applyDiscountResolver(server.db, context, input))

RemoveDiscount ==
    \E context \in Contexts :
        Serve("removeDiscount", context, NoInput,
              removeDiscount(server.db, context, NoInput))

Checkout ==
    \E context \in Contexts, itemIds \in ItemIdSetChoices(server.db) :
        LET input == [NoInput EXCEPT !.itemIds = itemIds]
        IN  Serve("checkout", context, input, checkout(server.db, context, input))

GetProduct ==
    \E context \in Contexts, productId \in ProductIds :
        LET input == [NoInput EXCEPT !.productId = productId]
        IN  Serve("getProduct", context, input, getProduct(server.db, context, input))

\* a checkout that passes its checks and during which a store call after
\* db.orders.create rejects: one of the decreaseStock calls, or the
\* removeMultipleItems call that follows the last of them
CheckoutStoreFails ==
    \E context \in Contexts, itemIds \in ItemIdSetChoices(server.db) :
        /\ checkout(server.db, context, [NoInput EXCEPT !.itemIds = itemIds]).err = ""
        /\ \E storeFails \in
                 1 .. (Len(selectedItemsOf(server.db,
                                           carts_findByUserId(server.db, context.user),
                                           itemIds)) + 1) :
              LET input == [NoInput EXCEPT !.itemIds = itemIds, !.storeFails = storeFails]
              IN  Serve("checkout", context, input,
                        checkoutStoreFails(server.db, context, input))

NextServer ==
    \/ GetCart
    \/ ValidateDiscountCode
    \/ AddToCart
    \/ UpdateCartItem
    \/ RemoveFromCart
    \/ RemoveMultipleItems
    \/ ClearCartMutation
    \/ ApplyDiscountMutation
    \/ RemoveDiscount
    \/ Checkout

SpecServer == InitServer /\ [][NextServer]_vars

\* the requests whose catch block runs: a product query, and a checkout during
\* which a store call rejects, on carts that addToCart requests have filled
NextCatch == AddToCart \/ GetProduct \/ CheckoutStoreFails

SpecCatch == InitServer /\ [][NextCatch]_vars

\* ---- vocabulary of the server's properties ----

NoItemsSelected == "No items selected for checkout"
ItemsNotFound == "Selected items not found in cart"
InsufficientStock == "Insufficient stock for"

\* the last request was a checkout that returned
CheckedOut == server.resp.op = "checkout" /\ server.resp.err = ""

\* the items of the caller's cart when the last request arrived
CallerItemsBefore ==
    LET c == carts_findByUserId(server.before, server.resp.user)
    IN  IF c = 0 THEN <<>> ELSE server.before.carts[c].items

\* the places in the caller's cart of the items the last request named
SelectedPlaces ==
    {i \in DOMAIN CallerItemsBefore : CallerItemsBefore[i].id \in server.resp.input.itemIds}

RECURSIVE QuantityUpTo(_, _, _)
QuantityUpTo(items, n, productId) ==
    IF n = 0 THEN 0
    ELSE QuantityUpTo(items, n - 1, productId)
           + (IF n \in SelectedPlaces /\ items[n].productId = productId
              THEN items[n].quantity ELSE 0)

\* the total quantity of the selected items that refer to the product
SelectedQuantity(productId) ==
    QuantityUpTo(CallerItemsBefore, Len(CallerItemsBefore), productId)

RECURSIVE AmountUpTo(_, _)
AmountUpTo(items, n) ==
    IF n = 0 THEN 0
    ELSE AmountUpTo(items, n - 1)
           + (IF n \in SelectedPlaces THEN items[n].price * items[n].quantity ELSE 0)

\* the sum of price x quantity over the selected items, in cents
SelectedAmount == AmountUpTo(CallerItemsBefore, Len(CallerItemsBefore))

\* the items that were not named, in their order
RECURSIVE UnselectedFrom(_, _)
UnselectedFrom(items, n) ==
    IF n > Len(items) THEN <<>>
    ELSE (IF n \in SelectedPlaces THEN <<>> ELSE <<items[n]>>) \o UnselectedFrom(items, n + 1)

AuthenticatedOperations ==
    {"getCart", "addToCart", "updateCartItem", "removeFromCart", "removeMultipleItems",
     "clearCart", "validateDiscountCode", "applyDiscount", "removeDiscount", "checkout"}

\* C14: a request for getCart, addToCart, updateCartItem, removeFromCart,
\* removeMultipleItems, clearCart, validateDiscountCode, applyDiscount,
\* removeDiscount or checkout that carries no user fails as unauthenticated,
\* whatever its input, and leaves carts, products, discounts and orders as
\* they were.
C14_UnauthenticatedRejected ==
    (server.resp.op \in AuthenticatedOperations /\ server.resp.user = NoUser) =>
        /\ server.resp.code = "UNAUTHENTICATED"
        /\ server.resp.err = "You must be logged in"
        /\ server.db = server.before

\* a checkout without a user and without selected items, on a database that has
\* carts with items: it is the missing user that is reported
C14_Witness ==
    /\ server.resp.op = "checkout"
    /\ server.resp.user = NoUser
    /\ server.resp.input.itemIds = {}
    /\ ItemIdsOf(server.db) # {}
    /\ server.resp.code = "UNAUTHENTICATED"

\* C15: a checkout that fails because no item was selected, because no
\* selected item is in the cart, or because the stock is short for a selected
\* item creates no order, changes no stock and removes nothing from any cart.
C15_FailedCheckoutChangesNothing ==
    (/\ server.resp.op = "checkout"
     /\ server.resp.err \in {NoItemsSelected, ItemsNotFound, InsufficientStock}) =>
        /\ server.db.orders = server.before.orders
        /\ server.db.products = server.before.products
        /\ server.db.carts = server.before.carts

\* a checkout of two items fails on the second one's stock
C15_Witness ==
    /\ server.resp.op = "checkout"
    /\ server.resp.err = InsufficientStock
    /\ Cardinality(SelectedPlaces) = 2
    /\ FirstShort(server.before, CallerItemsBefore, 1) = 2

\* C16: after any sequence of requests, one at a time, the stock of every
\* product is a non-negative integer.
C16_StockNeverNegative ==
    \A id \in DOMAIN server.db.products : server.db.products[id].stock >= 0

\* C17: after a checkout that returned, the stock of every product is what it
\* was less the total quantity of the selected items that refer to it; the
\* stock of a product no selected item refers to is what it was.
C17_StockDecreasedBySelection ==
    CheckedOut =>
        \A id \in DOMAIN server.db.products :
            server.db.products[id].stock
              = server.before.products[id].stock - SelectedQuantity(id)

\* two selected items of one product, together more than its stock, and one
\* of another product are checked out
C17_Witness ==
    /\ CheckedOut
    /\ \E id \in DOMAIN server.db.products :
          /\ Cardinality({i \in SelectedPlaces : CallerItemsBefore[i].productId = id}) = 2
          /\ SelectedQuantity(id) > server.before.products[id].stock
    /\ \E id \in DOMAIN server.db.products :
          server.db.products[id].stock = server.before.products[id].stock

\* C18: after a checkout that returned, the caller's cart holds the items
\* that were not selected, in their order and with their quantities; its
\* discount and the carts of the other users are what they were.
C18_CartKeepsUnselected ==
    CheckedOut =>
        LET c == carts_findByUserId(server.before, server.resp.user)
        IN  /\ server.db.carts[c].items = UnselectedFrom(CallerItemsBefore, 1)
            /\ server.db.carts[c].discount = server.before.carts[c].discount
            /\ Len(server.db.carts) = Len(server.before.carts)
            /\ \A o \in DOMAIN server.db.carts :
                  o # c => server.db.carts[o] = server.before.carts[o]

\* a cart with a discount keeps an unselected item while another user's cart holds items
C18_Witness ==
    /\ CheckedOut
    /\ LET c == carts_findByUserId(server.before, server.resp.user)
       IN  /\ server.db.carts[c].items # <<>>
           /\ server.db.carts[c].discount # 0
           /\ \E o \in DOMAIN server.db.carts : o # c /\ server.db.carts[o].items # <<>>

\* C19: the order a checkout creates has subtotal = the sum of price x
\* quantity over the selected items, tax = 10% of it, shipping = 0 from a
\* subtotal of 100 on and 10 below, total = their sum, and the checkout
\* returns that total.
C19_OrderAmounts ==
    CheckedOut =>
        LET order == server.db.orders[Len(server.db.orders)]
        IN  /\ order.subtotal = Num(SelectedAmount)
            /\ order.tax = Num(SelectedAmount \div 10)
            /\ order.shipping = Num(IF SelectedAmount >= 10000 THEN 0 ELSE 1000)
            /\ order.total = Num(order.subtotal.n + order.tax.n + order.shipping.n)
            /\ server.resp.value.total = order.total

----------------------------------------------------------------------------
(* Part 3, continued.  Checkout requests in flight together.                *)
(*                                                                         *)
(* checkout is an async function and every method of db is one: at each     *)
(* await the resolver is suspended and the continuations of the other       *)
(* operations that are in flight (those of one batched request, or any at   *)
(* all once a store call does real I/O) run before it resumes.  The store   *)
(* method itself runs when it is called, before the suspension.  An action  *)
(* below is the code of one checkout from one resumption to the next        *)
(* suspension.  The carts are filled before the checkouts start, and while  *)
(* only checkouts are in flight no item object is written, so that the item *)
(* objects a checkout holds are modelled by their values.                   *)

TaskIds == {1, 2}

IdleTask ==
    [pc |-> "idle", user |-> NoUser, itemIds |-> {}, c |-> 0, selectedItems |-> <<>>,
     i |-> 0, checked |-> {}, interleaved |-> FALSE, code |-> "", err |-> "",
     value |-> NoValue]

\* databases a sequence of addToCart requests of user-1 leaves: one item of
\* product 2; and an item of product 2, variant 'A', with an item of product 1
OneItemStore ==
    addToCart(seedData, [user |-> "user-1"], Input("2", 20, VUndefined, 0, {}, <<>>)).db

TwoItemStore ==
    addToCart(
        addToCart(seedData, [user |-> "user-1"],
                  Input("2", 20, VString(<<"A">>), 0, {}, <<>>)).db,
        [user |-> "user-1"], Input("1", 20, VUndefined, 0, {}, <<>>)).db

InitAsync ==
    /\ \E db \in {OneItemStore, TwoItemStore} :
          server = [db |-> db, before |-> db, resp |-> NoResponse, served |-> 0]
    /\ tasks = [t \in TaskIds |-> IdleTask]
    /\ cart = <<>>
    /\ arg = <<>>
    /\ pre = <<>>
    /\ ret = NoCall
    /\ ops = 0
    /\ calc = NoCalc
    /\ limiter = Unused
    /\ local = Unused
    /\ provider = Unused

\* the checkout has passed the stock check for an item and has not yet pruned the cart
Committing(task) ==
    task.checked # {} /\ task.pc \in {"stock", "decrease", "prune"}

\* task t runs from a resumption to its next suspension: it becomes next and
\* the database becomes db; if the run reads or writes the database (access),
\* it is noted as interleaved in every other checkout that is between its
\* stock check and its pruning
Run(t, next, db, access) ==
    /\ tasks' = [u \in TaskIds |->
                    IF u = t THEN next
                    ELSE IF access /\ Committing(tasks[u])
                         THEN [tasks[u] EXCEPT !.interleaved = TRUE]
                    ELSE tasks[u]]
    /\ server' = [server EXCEPT !.db = db]
    /\ UNCHANGED <<clientVars, limiter, local, provider>>

Thrown(task, code, message) ==
    [task EXCEPT !.pc = "done", !.code = code, !.err = message]

\* requireAuth, the check of cartItemIds, and the call of db.carts.findByUserId
Begin(t) ==
    \E context \in Contexts, itemIds \in ItemIdSetChoices(server.db) :
        LET task == [IdleTask EXCEPT !.user = context.user, !.itemIds = itemIds]
        IN  /\ tasks[t].pc = "idle"
            /\ IF ~requireAuth(context)
               THEN Run(t, Thrown(task, "UNAUTHENTICATED", "You must be logged in"), server.db,
                        FALSE)
               ELSE IF itemIds = {}
               THEN Run(t, Thrown(task, "BAD_USER_INPUT", "No items selected for checkout"),
                        server.db, FALSE)
               ELSE Run(t, [task EXCEPT !.pc = "cart",
                                        !.c = carts_findByUserId(server.db, context.user)],
                        server.db, TRUE)

\* if (!cart); the filter of cart.items; the call of findById for the first item
Select(t) ==
    LET task == tasks[t]
        selectedItems == selectedItemsOf(server.db, task.c, task.itemIds)
    IN  /\ task.pc = "cart"
        /\ IF task.c = 0
           THEN Run(t, Thrown(task, "BAD_USER_INPUT", "Cart not found"), server.db, FALSE)
           ELSE IF selectedItems = <<>>
           THEN Run(t, Thrown(task, "BAD_USER_INPUT", "Selected items not found in cart"),
                    server.db, TRUE)
           ELSE Run(t, [task EXCEPT !.pc = "stock", !.selectedItems = selectedItems, !.i = 1],
                    server.db, TRUE)

\* product.stock < item.quantity for item i; then the call of findById for the
\* next item or, after the last one, the amounts and the call of db.orders.create
CheckStock(t) ==
    LET task == tasks[t]
        item == task.selectedItems[task.i]
        stock == server.db.products[item.productId].stock
        seen == [task EXCEPT !.checked = @ \cup {<<item.productId, stock>>}]
        subtotal == reduceSubtotal(task.selectedItems, Num(0))
        tax == jsTimesTenth(subtotal)
        shipping == shippingOf(subtotal)
        total == jsAdd(jsAdd(subtotal, tax), shipping)
    IN  /\ task.pc = "stock"
        /\ IF stock < item.quantity
           THEN Run(t, Thrown(task, "BAD_USER_INPUT", "Insufficient stock for"), server.db, TRUE)
           ELSE IF task.i < Len(task.selectedItems)
           THEN Run(t, [seen EXCEPT !.i = @ + 1], server.db, TRUE)
           ELSE Run(t, [seen EXCEPT !.pc = "decrease", !.i = 1,
                                    !.value = [NoValue EXCEPT !.success = TRUE,
                                                 !.orderId = server.db.uuids + 1,
                                                 !.total = total]],
                    orders_create(server.db,
                        [userId |-> task.user, items |-> task.selectedItems,
                         subtotal |-> subtotal, tax |-> tax, shipping |-> shipping,
                         total |-> total]),
                    TRUE)

\* the call of decreaseStock for item i
DecreaseStock(t) ==
    LET task == tasks[t]
        item == task.selectedItems[task.i]
    IN  /\ task.pc = "decrease"
        /\ Run(t, IF task.i < Len(task.selectedItems)
                  THEN [task EXCEPT !.i = @ + 1]
                  ELSE [task EXCEPT !.pc = "prune"],
               decreaseStock(server.db, item.productId, item.quantity), TRUE)

\* the call of db.carts.removeMultipleItems
Prune(t) ==
    /\ tasks[t].pc = "prune"
    /\ Run(t, [tasks[t] EXCEPT !.pc = "return"],
           carts_removeMultipleItems(server.db, tasks[t].c, tasks[t].itemIds), TRUE)

\* return { success: true, orderId, total, message }
Finish(t) ==
    /\ tasks[t].pc = "return"
    /\ tasks' = [tasks EXCEPT ![t].pc = "done"]
    /\ UNCHANGED <<clientVars, limiter, server, local, provider>>

NextAsync ==
    \E t \in TaskIds :
        \/ Begin(t)
        \/ Select(t)
        \/ CheckStock(t)
        \/ DecreaseStock(t)
        \/ Prune(t)
        \/ Finish(t)

SpecAsync == InitAsync /\ [][NextAsync]_vars

\* the checkout passed the stock check of every selected item
PassedStockCheck(task) ==
    task.pc \in {"decrease", "prune", "return"} \/ (task.pc = "done" /\ task.err = "")

ItemIdsIn(order) == {order.items[i].id : i \in DOMAIN order.items}

\* C20: a checkout runs from its stock check to its pruning of the cart with
\* no store access of another operation in between; two checkouts for the same
\* cart never both pass the stock check on the same value of a product's
\* stock; no cart item is in two orders.
C20_CheckoutsRunToCompletion ==
    /\ \A t \in TaskIds : ~tasks[t].interleaved
    /\ \A t, u \in TaskIds :
          (/\ t # u
           /\ PassedStockCheck(tasks[t])
           /\ PassedStockCheck(tasks[u])
           /\ tasks[t].c = tasks[u].c) => tasks[t].checked \cap tasks[u].checked = {}
    /\ \A m, n \in DOMAIN server.db.orders :
          m # n => ItemIdsIn(server.db.orders[m]) \cap ItemIdsIn(server.db.orders[n]) = {}

\* the selected items of the caller's cart, in their order
RECURSIVE SelectedFrom(_, _)
SelectedFrom(items, n) ==
    IF n > Len(items) THEN <<>>
    ELSE (IF n \in SelectedPlaces THEN <<items[n]>> ELSE <<>>) \o SelectedFrom(items, n + 1)

\* the total quantity of the first k selected items that refer to the product
RECURSIVE QuantityOfFirst(_, _, _)
QuantityOfFirst(selected, k, productId) ==
    IF k = 0 THEN 0
    ELSE QuantityOfFirst(selected, k - 1, productId)
           + (IF selected[k].productId = productId THEN selected[k].quantity ELSE 0)

\* the last request was a checkout during which a store call rejected after
\* the order was created
StoreFailed == server.resp.op = "checkout" /\ server.resp.input.storeFails > 0

\* C21: when a decreaseStock call or the removeMultipleItems call of a
\* checkout fails after the order was created, the checkout fails for the
\* caller, the order is in the order store, every product's stock is what it
\* was less the decrements made before the failing call, and no cart changed:
\* nothing is rolled back.
C21_NoRollbackAfterOrder ==
    StoreFailed =>
        LET selected == SelectedFrom(CallerItemsBefore, 1)
            order == server.db.orders[Len(server.db.orders)]
        IN  /\ server.resp.err # ""
            /\ ~server.resp.value.success
            /\ Len(server.db.orders) = Len(server.before.orders) + 1
            /\ SubSeq(server.db.orders, 1, Len(server.before.orders)) = server.before.orders
            /\ order.userId = server.resp.user
            /\ order.items = selected
            /\ \A id \in DOMAIN server.db.products :
                  server.db.products[id].stock
                    = server.before.products[id].stock
                        - QuantityOfFirst(selected, server.resp.input.storeFails - 1, id)
            /\ server.db.carts = server.before.carts

\* the second of two decreaseStock calls rejects: the order and the first
\* decrement are in the store
C21_Witness ==
    /\ StoreFailed
    /\ server.resp.input.storeFails = 2
    /\ Len(SelectedFrom(CallerItemsBefore, 1)) = 2
    /\ Len(server.db.orders) = Len(server.before.orders) + 1
    /\ server.db.products # server.before.products

----------------------------------------------------------------------------
(* Part 3, continued.  One user's cart under a long run of addToCart and    *)
(* updateCartItem requests, one at a time.                                  *)

MaxFill == 10

\* product 3 has the largest seeded stock, 100: an addToCart of 100 passes the
\* stock check each time, since nothing but a checkout lowers the stock
FillInputs ==
    {[NoInput EXCEPT !.productId = "3", !.quantity = quantity, !.variant = variant] :
        quantity \in {1, 100}, variant \in {VNull, VString(<<"A">>)}}
FillQuantities == {0, 1, 100, 999}

InitFill ==
    /\ server = [db |-> seedData, before |-> seedData, resp |-> NoResponse, served |-> 0]
    /\ cart = <<>>
    /\ arg = <<>>
    /\ pre = <<>>
    /\ ret = NoCall
    /\ ops = 0
    /\ calc = NoCalc
    /\ limiter = Unused
    /\ tasks = Unused
    /\ local = Unused
    /\ provider = Unused

\* one request of user-1, as Serve records it
ServeFill(op, input, result) ==
    /\ server.served < MaxFill
    /\ server' = [db |-> result.db,
                  before |-> server.db,
                  resp |-> [op |-> op, user |-> "user-1", input |-> input,
                            code |-> result.code, err |-> result.err,
                            value |-> result.value],
                  served |-> server.served + 1]
    /\ UNCHANGED <<clientVars, limiter, tasks, local, provider>>

FillAddToCart ==
    \E input \in FillInputs :
        ServeFill("addToCart", input, addToCart(server.db, [user |-> "user-1"], input))

FillUpdateCartItem ==
    \E itemId \in ItemIdsOf(server.db), quantity \in FillQuantities :
        LET input == [NoInput EXCEPT !.itemId = itemId, !.quantity = quantity]
        IN  ServeFill("updateCartItem", input,
                      updateCartItem(server.db, [user |-> "user-1"], input))

NextFill == FillAddToCart \/ FillUpdateCartItem

SpecFill == InitFill /\ [][NextFill]_vars

\* C22: after any sequence of addToCart and updateCartItem requests every
\* cart item's quantity lies between 1 and 999, also when an addToCart was
\* summed onto an item of the same product and variant.
C22_ServerQuantityInRange ==
    \A c \in DOMAIN server.db.carts :
        \A i \in DOMAIN server.db.carts[c].items :
            /\ server.db.carts[c].items[i].quantity >= 1
            /\ server.db.carts[c].items[i].quantity <= 999

\* C23: getProduct for an id that no product has fails with the user-input
\* error 'Product not found', and that error is what the caller receives.
C23_ProductNotFoundTyped ==
    (/\ server.resp.op = "getProduct"
     /\ ~products_has(server.before, server.resp.input.productId)) =>
        /\ server.resp.code = "BAD_USER_INPUT"
        /\ server.resp.err = "Product not found"

----------------------------------------------------------------------------
(* Properties of removeItem and updateQuantity (specification Spec)         *)

\* the last call was removeItem, or updateQuantity with a valid quantity
RemoveOrUpdate ==
    \/ ret.op = "removeItem"
    \/ ret.op = "updateQuantity" /\ validators_quantity_ok(ret.input.quantity)

\* the places of the entries the (id, variant) of the last call matches: same
\* id, and the variant the validator makes of the one given
MatchedPlaces ==
    {i \in DOMAIN pre : /\ pre[i].id = ret.input.id
                        /\ pre[i].variant = validators_variant(ret.input.variant)}

\* the entries outside MatchedPlaces, in their order
RECURSIVE Unmatched(_)
Unmatched(n) ==
    IF n = 0 THEN <<>>
    ELSE Unmatched(n - 1) \o (IF n \in MatchedPlaces THEN <<>> ELSE <<pre[n]>>)

\* what the claim says of a call: nothing matched and the input came back, or
\* one entry matched and only it was removed or given the new quantity; the
\* array passed in is as it was
NoOpOrOneEntry ==
    /\ ret.err = ""
    /\ arg = pre
    /\ Cardinality(MatchedPlaces) <= 1
    /\ MatchedPlaces = {} => cart = pre
    /\ ret.op = "removeItem" => cart = Unmatched(Len(pre))
    /\ ret.op = "updateQuantity" =>
          cart = [i \in DOMAIN pre |->
                     IF i \in MatchedPlaces
                     THEN [pre[i] EXCEPT !.quantity = ret.input.quantity] ELSE pre[i]]

\* C26 as stated: for every (id, variant), removeItem, and updateQuantity with a
\* valid quantity, return their input without error when no entry matches, and
\* otherwise remove or update only the matching entry, the others unchanged and
\* in order.
C26_NoMatchIsNoOp == RemoveOrUpdate => NoOpOrOneEntry

\* C26 amended: the same for every valid id; updateQuantity with an id that
\* validators.productId rejects fails with UPDATE_FAILED and leaves the cart as
\* it was, where removeItem with such an id returns its input without error.
C26_NoMatchIsNoOpForValidId ==
    RemoveOrUpdate =>
        IF ret.op = "updateQuantity" /\ ~validators_productId_ok(ret.input.id)
        THEN ret.err = "UPDATE_FAILED" /\ cart = pre /\ arg = pre
        ELSE NoOpOrOneEntry

\* updateQuantity has replaced the quantity of one of several entries
C26_Witness ==
    /\ ret.op = "updateQuantity" /\ ret.err = ""
    /\ Cardinality(MatchedPlaces) = 1
    /\ Len(pre) >= 2
    /\ cart # pre

----------------------------------------------------------------------------
(* Part 4.  The storage module of the cart core (cartCore.secure.js:7-101)  *)
(*                                                                         *)
(* localStorage holds one string under CART_STORAGE_KEY, or nothing.  The   *)
(* string is modelled by its JSON structure: the text of an array is the    *)
(* sequence of the texts of its items, the text of an item gives each of    *)
(* its six properties as a JSON value.  A price is written in mills in the  *)
(* text, whatever unit the model keeps the number in.  Any page script can  *)
(* write the string, so it need not be one that save wrote.                 *)

\* ---- JSON.stringify and JSON.parse ----

JNumber(n) == [t |-> "number", n |-> n, s |-> <<>>]
JString(s) == [t |-> "string", n |-> 0, s |-> s]
JNull == [t |-> "null", n |-> 0, s |-> <<>>]

\* an image value as text: null, or the string
JSON_stringify_image(url) == IF url.kind = "null" THEN JNull ELSE JString(url.href)

\* new URL(href).protocol for the strings of the model
ProtocolOf(href) == IF href = HttpsImage.href THEN HttpsImage.protocol
                    ELSE ScriptImage.protocol

JSON_parse_image(text) ==
    IF text.t = "null" THEN NoImage
    ELSE [kind |-> "string", protocol |-> ProtocolOf(text.s), href |-> text.s]

\* the inverse of JSON_stringify on variants; a property that was undefined
\* is not in the text and is undefined again after parsing
JSON_parse_variant(text) ==
    IF text = <<"undefined">> THEN VUndefined
    ELSE IF text = <<"null">> THEN VNull
    ELSE IF text[1] = "\"" THEN VString(text[2])
    ELSE VObject(text[2])

\* the text of an item whose price is a number of mills
JSON_stringify_item(item) ==
    [id |-> JNumber(item.id), name |-> JString(item.name), price |-> JNumber(item.price),
     quantity |-> JNumber(item.quantity), image |-> JSON_stringify_image(item.image),
     variant |-> JSON_stringify(item.variant)]

JSON_parse_item(text) ==
    [id |-> text.id.n, name |-> text.name.s, price |-> text.price.n,
     quantity |-> text.quantity.n, image |-> JSON_parse_image(text.image),
     variant |-> JSON_parse_variant(text.variant)]

\* a validated item as the JavaScript object it is: its price, kept in cents, in mills
AsCandidate(validItem) == [validItem EXCEPT !.price = @ * 10]

\* what localStorage.getItem returns: null, the text of an array, or a text
\* that is valid JSON but not of an array
NoData == [kind |-> "null", items |-> <<>>]
ArrayText(items) ==
    [kind |-> "array", items |-> [i \in DOMAIN items |-> JSON_stringify_item(items[i])]]
ObjectText == [kind |-> "object", items |-> <<>>]

\* ---- storage.save, storage.load, storage.clear ----

\* cart.map(item => { try { return validators.cartItem(item) } catch { return null } })
\*     .filter(Boolean)
RECURSIVE validatedItems(_)
validatedItems(items) ==
    IF items = <<>> THEN <<>>
    ELSE (IF validators_cartItem_ok(Head(items))
          THEN <<validators_cartItem(Head(items))>> ELSE <<>>)
         \o validatedItems(Tail(items))

\* .slice(0, MAX_CART_SIZE)
slice(items) ==
    IF Len(items) > MAX_CART_SIZE THEN SubSeq(items, 1, MAX_CART_SIZE) ELSE items

\* the outcome of a storage call: the error code thrown ("" for none), the
\* items returned (load), and what localStorage holds afterwards
Stored(err, items, data) == [err |-> err, items |-> items, data |-> data]

\* a is AnArray(cart) or NotAnArray
storage_save(a, data) ==
    IF ~a.isArray THEN Stored("INVALID_FORMAT", <<>>, data)
    ELSE IF Len(a.items) > MAX_CART_SIZE THEN Stored("SIZE_LIMIT", <<>>, data)
    ELSE Stored("", <<>>,
                ArrayText([i \in DOMAIN validatedItems(a.items) |->
                              AsCandidate(validatedItems(a.items)[i])]))

\* validatedCart.length !== parsed.length
needsSave_never(validatedCart, parsed) == FALSE

needsSave(validatedCart, parsed) == Len(validatedCart) # Len(parsed)

storage_load(data) ==
    IF data.kind = "null" THEN Stored("", <<>>, data)
    ELSE IF data.kind # "array" THEN Stored("", <<>>, NoData)
    ELSE LET parsed == [i \in DOMAIN data.items |-> JSON_parse_item(data.items[i])]
             validatedCart == slice(validatedItems(parsed))
             saved == storage_save([isArray |-> TRUE,
                                    items |-> [i \in DOMAIN validatedCart |->
                                                  AsCandidate(validatedCart[i])]], data)
         IN  IF ~needsSave(validatedCart, parsed) THEN Stored("", validatedCart, data)
             ELSE IF saved.err # "" THEN Stored("", <<>>, NoData)
             ELSE Stored("", validatedCart, saved.data)

storage_clear(data) == Stored("", <<>>, NoData)

\* ---- the storage module called by a page, one call at a time ----

MaxStorageCalls == 3

Tagged == [Candidate(1, ColorBoldRed, 1) EXCEPT !.name = Tee]
Padded == Candidate(2, VUndefined, 998)
Lettered == Candidate(1, VString(<<"A">>), 0)
BadId == Candidate(0, VNull, 1)
BadName == [Candidate(1, VNull, 1) EXCEPT !.name = OnlyTag]

RECURSIVE StockProducts(_)
StockProducts(n) == IF n = 0 THEN <<>> ELSE Append(StockProducts(n - 1), StockProduct(n))

\* what a caller passes to save
SavedCarts ==
    {AnArray(c) : c \in {<<>>, <<Tagged>>, <<Padded, Lettered>>, <<Lettered, Padded>>,
                         <<BadId, Tagged>>, <<Padded, BadName, Lettered>>,
                         StockProducts(MAX_CART_SIZE + 1)}}
      \cup {NotAnArray}

\* what another script of the page may leave under the key
ForeignData ==
    {ArrayText(c) : c \in {<<Tagged, BadId>>, <<BadName, Padded, Lettered>>,
                           StockProducts(MAX_CART_SIZE + 1)}}
      \cup {ObjectText}

NoStorageCall == [op |-> "none", cart |-> NotAnArray, before |-> NoData, err |-> "",
                  items |-> <<>>, data |-> NoData]

InitStorage ==
    /\ local = [data |-> NoData, calls |-> <<>>]
    /\ cart = <<>> /\ arg = NoCall.input /\ pre = <<>> /\ ret = NoCall /\ ops = 0
    /\ calc = NoCalc
    /\ limiter = Unused /\ server = Unused /\ tasks = Unused /\ provider = Unused

\* one call of the storage module, or one foreign write, with its outcome
StorageCall(op, a, outcome) ==
    /\ Len(local.calls) < MaxStorageCalls
    /\ local' = [data |-> outcome.data,
                 calls |-> Append(local.calls,
                                  [op |-> op, cart |-> a, before |-> local.data,
                                   err |-> outcome.err, items |-> outcome.items,
                                   data |-> outcome.data])]
    /\ UNCHANGED <<cart, arg, pre, ret, ops, calc, limiter, server, tasks, provider>>

Save == \E a \in SavedCarts : StorageCall("save", a, storage_save(a, local.data))

Load == StorageCall("load", NotAnArray, storage_load(local.data))

Clear == StorageCall("clear", NotAnArray, storage_clear(local.data))

ForeignWrite ==
    \E data \in ForeignData : StorageCall("setItem", NotAnArray, Stored("", <<>>, data))

NextStorage == Save \/ Load \/ Clear \/ ForeignWrite

SpecStorage == InitStorage /\ [][NextStorage]_vars

\* ---- vocabulary ----

\* the items of a sequence that pass validators.cartItem, in their order
RECURSIVE Passing(_)
Passing(items) ==
    IF items = <<>> THEN <<>>
    ELSE (IF validators_cartItem_ok(Head(items)) THEN <<Head(items)>> ELSE <<>>)
         \o Passing(Tail(items))

\* the validated form of a sequence of items
ValidatedForm(items) == [i \in DOMAIN Passing(items) |-> validators_cartItem(Passing(items)[i])]

\* the items a stored text gives when parsed
ParsedFrom(data) == [i \in DOMAIN data.items |-> JSON_parse_item(data.items[i])]

\* call k is a load that follows call k - 1 directly
LoadAfter(k, op) ==
    /\ k \in 2 .. Len(local.calls)
    /\ local.calls[k].op = "load"
    /\ local.calls[k - 1].op = op
    /\ local.calls[k - 1].err = ""

\* call k is a load that dropped an item of the stored array
LoadDropped(k) ==
    /\ k \in 1 .. Len(local.calls)
    /\ local.calls[k].op = "load"
    /\ local.calls[k].before.kind = "array"
    /\ Len(local.calls[k].items) # Len(local.calls[k].before.items)

\* C24: a load that directly follows a successful save(cart) returns the
\* validated form of cart: the items of cart that pass validators.cartItem, in
\* their order, each with the id, name, price, quantity, image and variant the
\* validator gives it, the failing items dropped and no error raised; a load
\* that drops an item leaves the text of the list it returns in storage; and a
\* load that directly follows a load returns the same list.
C24_SaveLoadRoundTrip ==
    \A k \in 1 .. Len(local.calls) :
        /\ LoadAfter(k, "save") =>
              /\ local.calls[k].err = ""
              /\ local.calls[k - 1].err = ""
              /\ local.calls[k].items = ValidatedForm(local.calls[k - 1].cart.items)
        /\ LoadDropped(k) =>
              local.calls[k].data =
                  ArrayText([i \in DOMAIN local.calls[k].items |->
                                AsCandidate(local.calls[k].items[i])])
        /\ LoadAfter(k, "load") => local.calls[k].items = local.calls[k - 1].items

\* a cart with a failing item and items the validator rewrites was saved and
\* loaded twice, and a load dropped an item of a foreign text
C24_Witness ==
    /\ Len(local.calls) = 3
    /\ LoadAfter(2, "save") /\ LoadAfter(3, "load")
    /\ Len(local.calls[1].cart.items) = 3
    /\ Len(local.calls[3].items) = 2

----------------------------------------------------------------------------
(* Part 5.  sanitize.object on nested input (part_002:204-216)              *)
(*                                                                         *)
(* Here the value of a property is any JavaScript value: a string, or an    *)
(* object whose properties have such values again.  On an object whose      *)
(* values are all strings the function is sanitize_object of Part 1.        *)

\* a property value that is a string; one that is an object is VObject(entries)
\* with each entry <<key, value>> holding such a value again
RECURSIVE SanitizeProperties(_, _)
SanitizeProperties(es, acc) ==
    IF es = <<>> THEN acc
    ELSE LET value == Head(es)[2]
             cleanKey == sanitize_text(Head(es)[1])
             cleanValue == IF value.kind = "string" THEN VString(sanitize_text(value.str))
                           ELSE value
         IN SanitizeProperties(Tail(es),
                IF cleanKey # <<>> THEN SetEntry(acc, cleanKey, cleanValue) ELSE acc)

\* sanitize.object: the error thrown ("" for none) and the value returned
sanitize_object_nested(input) ==
    IF input.kind # "object" THEN [err |-> "", value |-> EmptyObject]
    ELSE [err |-> "", value |-> VObject(SanitizeProperties(input.entries, <<>>))]

\* ---- sanitize.object applied to one input ----

MaxNesting == 12

\* the depth cap the sanitizers of the repository that have one use
\* (XSSProtection.sanitizeObject)
MAX_DEPTH == 10

BoldColor == <<"<", "b", ">">> \o Color

\* leaf under d objects, each with the one property key
RECURSIVE Nest(_, _, _)
Nest(d, key, leaf) ==
    IF d = 0 THEN VString(leaf) ELSE VObject(<< <<key, Nest(d - 1, key, leaf)>> >>)

SanitizerInputs ==
    {Nest(d, key, leaf) : d \in 1 .. MaxNesting, key \in {Color, BoldColor},
                          leaf \in {Red, BoldRed, Blue}}
      \cup {VNull, VUndefined, VString(Red), VString(<<>>)}

InitSanitize ==
    /\ \E input \in SanitizerInputs :
          calc = [fn |-> "none", input |-> input, err |-> "", value |-> EmptyObject]
    /\ cart = <<>> /\ arg = NoCall.input /\ pre = <<>> /\ ret = NoCall /\ ops = 0
    /\ limiter = Unused /\ server = Unused /\ tasks = Unused
    /\ local = Unused /\ provider = Unused

SanitizeObject ==
    /\ calc.fn = "none"
    /\ calc' = [fn |-> "sanitize.object", input |-> calc.input,
                err |-> sanitize_object_nested(calc.input).err,
                value |-> sanitize_object_nested(calc.input).value]
    /\ UNCHANGED <<cart, arg, pre, ret, ops, limiter, server, tasks, local, provider>>

NextSanitize == SanitizeObject

SpecSanitize == InitSanitize /\ [][NextSanitize]_vars

\* ---- vocabulary ----

\* the number of objects around the most deeply nested value
RECURSIVE Nesting(_)
RECURSIVE NestingOfEntries(_)
Nesting(v) == IF v.kind # "object" THEN 0 ELSE 1 + NestingOfEntries(v.entries)
NestingOfEntries(es) ==
    IF es = <<>> THEN 0
    ELSE LET h == Nesting(Head(es)[2])
             t == NestingOfEntries(Tail(es))
         IN IF h > t THEN h ELSE t

\* no key and no string value, at any level, has markup left to strip
RECURSIVE CleanAtEveryLevel(_)
RECURSIVE CleanEntries(_)
CleanAtEveryLevel(v) ==
    CASE v.kind = "string" -> sanitize_text(v.str) = v.str
      [] v.kind = "object" -> CleanEntries(v.entries)
      [] OTHER -> TRUE
CleanEntries(es) ==
    \/ es = <<>>
    \/ /\ sanitize_text(Head(es)[1]) = Head(es)[1]
       /\ CleanAtEveryLevel(Head(es)[2])
       /\ CleanEntries(Tail(es))

\* C25: sanitize.object returns the empty object for an input that is not an
\* object, throws for an input nested more than 10 levels deep, and otherwise
\* returns an object whose keys and string values are sanitized at every
\* nesting level.
C25_SanitizedAtEveryLevel ==
    calc.fn = "sanitize.object" =>
        IF calc.input.kind # "object" THEN calc.err = "" /\ calc.value = EmptyObject
        ELSE IF Nesting(calc.input) > MAX_DEPTH THEN calc.err # ""
        ELSE calc.err = "" /\ CleanAtEveryLevel(calc.value)

----------------------------------------------------------------------------
(* A long run of applyDiscount requests of one user, one at a time: the     *)
(* usage counts reach the limits of the codes.                              *)

MaxApplies == 52

lowerSave20 == <<" ", "s", "a", "v", "e", "2", "0">>
AppliedCodes == {lowerSave20, SAVE10, <<"N", "O", "P", "E">>}

\* the database once user-1 has fetched the cart
InitDiscount ==
    /\ LET db == getCart(seedData, [user |-> "user-1"], NoInput).db
       IN  server = [db |-> db, before |-> db, resp |-> NoResponse, served |-> 0]
    /\ cart = <<>> /\ arg = <<>> /\ pre = <<>> /\ ret = NoCall /\ ops = 0
    /\ calc = NoCalc
    /\ limiter = Unused /\ tasks = Unused /\ local = Unused /\ provider = Unused

\* one request of user-1, as Serve records it
ServeDiscount(op, input, result) ==
    /\ server.served < MaxApplies
    /\ server' = [db |-> result.db,
                  before |-> server.db,
                  resp |-> [op |-> op, user |-> "user-1", input |-> input,
                            code |-> result.code, err |-> result.err,
                            value |-> result.value],
                  served |-> server.served + 1]
    /\ UNCHANGED <<clientVars, limiter, tasks, local, provider>>

DiscountApply ==
    \E code \in AppliedCodes :
        LET input == [NoInput EXCEPT !.code = code]
        IN  ServeDiscount("applyDiscount", input,
                          applyDiscountResolver(server.db, [user |-> "user-1"], input))

NextDiscount == DiscountApply

SpecDiscount == InitDiscount /\ [][NextDiscount]_vars

\* the code the last request named, as the lookup takes it
CodeLookedUp == toUpperCase(sanitizeInput(server.resp.input.code))

\* the lookup of the last request found the code and reported it valid
LookupValid ==
    /\ CodeLookedUp \in DOMAIN server.before.discounts
    /\ server.before.discounts[CodeLookedUp].usedCount
          < server.before.discounts[CodeLookedUp].maxUses

\* C27: with requests served one at a time, no discount's usedCount exceeds its
\* maxUses; an applyDiscount request raises the usedCount of the code it named,
\* by one, only when the lookup reported that code valid, and raises no other;
\* and an applyDiscount that fails with 'Invalid discount code' changes no
\* usedCount and no cart's discount percentage.
C27_UsageWithinLimit ==
    /\ \A code \in DOMAIN server.db.discounts :
          server.db.discounts[code].usedCount <= server.db.discounts[code].maxUses
    /\ server.resp.op = "applyDiscount" =>
          /\ \A code \in DOMAIN server.db.discounts :
                \/ server.db.discounts[code] = server.before.discounts[code]
                \/ /\ code = CodeLookedUp /\ LookupValid /\ server.resp.err = ""
                   /\ server.db.discounts[code] =
                         [server.before.discounts[code] EXCEPT !.usedCount = @ + 1]
          /\ server.resp.err = "Invalid discount code" =>
                /\ server.db.discounts = server.before.discounts
                /\ server.db.carts = server.before.carts
          /\ (server.resp.err = "Invalid discount code") = ~LookupValid

\* SAVE20 has been used maxUses times and a further applyDiscount of it failed
C27_Witness ==
    /\ server.db.discounts[SAVE20].usedCount = server.db.discounts[SAVE20].maxUses
    /\ server.resp.op = "applyDiscount"
    /\ CodeLookedUp = SAVE20
    /\ server.resp.err = "Invalid discount code"

----------------------------------------------------------------------------
(* getCart and addToCart requests in flight together (typeDefs.js:196-212,  *)
(* 287-334).  Every db method is an async function: its body runs when it   *)
(* is called, and the resolver that awaits it resumes in a later microtask,  *)
(* after whatever other resolvers were resumed before it.  A task steps from *)
(* one await to the next.                                                   *)

IdleAccess ==
    [pc |-> "idle", op |-> "none", user |-> NoUser, input |-> NoInput, c |-> 0,
     code |-> "", err |-> "", value |-> NoValue]

AccessInputs ==
    {Input("1", 1, VUndefined, 0, {}, <<>>), Input("1", 0, VUndefined, 0, {}, <<>>),
     Input("9", 1, VUndefined, 0, {}, <<>>), Input("2", 40, VUndefined, 0, {}, <<>>)}

InitAccess ==
    /\ server = [db |-> seedData, before |-> seedData, resp |-> NoResponse, served |-> 0]
    /\ tasks = [t \in TaskIds |-> IdleAccess]
    /\ cart = <<>> /\ arg = <<>> /\ pre = <<>> /\ ret = NoCall /\ ops = 0
    /\ calc = NoCalc
    /\ limiter = Unused /\ local = Unused /\ provider = Unused

\* task t runs from a resumption to its next suspension
Resume(t, next, db) ==
    /\ tasks' = [tasks EXCEPT ![t] = next]
    /\ server' = [server EXCEPT !.db = db]
    /\ UNCHANGED <<clientVars, limiter, local, provider>>

\* the item data addToCart passes to db.carts.addItem
itemDataOf(db, input) ==
    [productId |-> input.productId, quantity |-> input.quantity,
     variant |-> input.variant, price |-> db.products[input.productId].price]

\* the resolver from the point where it holds its cart (place c) to its next
\* suspension: getCart returns it, addToCart calls db.carts.addItem
HoldingCart(t, task, db, c) ==
    IF task.op = "getCart"
    THEN Resume(t, [task EXCEPT !.pc = "done", !.c = c,
                                !.value = [NoValue EXCEPT !.cart = c]], db)
    ELSE Resume(t, [task EXCEPT !.pc = "added", !.c = c],
                carts_addItem(db, c, itemDataOf(db, task.input)))

\* getCart: requireAuth and the call of db.carts.findByUserId
EnterGetCart(t) ==
    \E context \in Contexts :
        LET task == [IdleAccess EXCEPT !.op = "getCart", !.user = context.user]
        IN  /\ tasks[t].pc = "idle"
            /\ IF ~requireAuth(context)
               THEN Resume(t, Thrown(task, "UNAUTHENTICATED", "You must be logged in"),
                           server.db)
               ELSE Resume(t, [task EXCEPT !.pc = "found",
                                           !.c = carts_findByUserId(server.db, context.user)],
                           server.db)

\* addToCart: requireAuth, the check of the quantity, the call of db.products.findById
EnterAddToCart(t) ==
    \E context \in Contexts, input \in AccessInputs :
        LET task == [IdleAccess EXCEPT !.op = "addToCart", !.user = context.user,
                                       !.input = input]
        IN  /\ tasks[t].pc = "idle"
            /\ IF ~requireAuth(context)
               THEN Resume(t, Thrown(task, "UNAUTHENTICATED", "You must be logged in"),
                           server.db)
               ELSE IF input.quantity < 1 \/ input.quantity > 999
               THEN Resume(t, Thrown(task, "BAD_USER_INPUT",
                                     "Quantity must be between 1 and 999"), server.db)
               ELSE Resume(t, [task EXCEPT !.pc = "product"], server.db)

\* addToCart: if (!product); if (product.stock < quantity); the call of
\* db.carts.findByUserId
LookUpCart(t) ==
    LET task == tasks[t]
    IN  /\ task.pc = "product"
        /\ IF ~products_has(server.db, task.input.productId)
           THEN Resume(t, Thrown(task, "BAD_USER_INPUT", "Product not found"), server.db)
           ELSE IF server.db.products[task.input.productId].stock < task.input.quantity
           THEN Resume(t, Thrown(task, "BAD_USER_INPUT", "Insufficient stock"), server.db)
           ELSE Resume(t, [task EXCEPT !.pc = "found",
                                       !.c = carts_findByUserId(server.db, task.user)],
                       server.db)

\* if (!cart) cart = await db.carts.create({ userId }); with a cart found the
\* resolver goes on at once
CreateCart(t) ==
    LET task == tasks[t]
    IN  /\ task.pc = "found"
        /\ IF task.c = 0
           THEN Resume(t, [task EXCEPT !.pc = "created",
                                       !.c = Len(server.db.carts) + 1],
                       carts_create(server.db, task.user))
           ELSE HoldingCart(t, task, server.db, task.c)

\* the resolver resumes with the cart it created
Created(t) ==
    /\ tasks[t].pc = "created"
    /\ HoldingCart(t, tasks[t], server.db, tasks[t].c)

\* addToCart: pubsub.publish and return cart
Added(t) ==
    /\ tasks[t].pc = "added"
    /\ Resume(t, [tasks[t] EXCEPT !.pc = "done",
                                  !.value = [NoValue EXCEPT !.cart = tasks[t].c]], server.db)

NextAccess ==
    \E t \in TaskIds :
        \/ EnterGetCart(t)
        \/ EnterAddToCart(t)
        \/ LookUpCart(t)
        \/ CreateCart(t)
        \/ Created(t)
        \/ Added(t)

SpecAccess == InitAccess /\ [][NextAccess]_vars

\* the places of the carts of an owner
CartsOf(userId) == {c \in DOMAIN server.db.carts : server.db.carts[c].userId = userId}

\* C28: no owner has two carts in the store, whatever getCart and addToCart
\* requests have been made and however their awaited store calls interleaved.
C28_OneCartPerOwner == \A userId \in Users : Cardinality(CartsOf(userId)) <= 1

----------------------------------------------------------------------------
(* Part 6.  The enhanced CartProvider (CartContext.enhanced.jsx)            *)
(*                                                                         *)
(* The component keeps the cart in React state.  addItem, removeItem and    *)
(* updateQuantity are callbacks created at a render: they compute the new   *)
(* cart from the cart of that render and pass it to setCart.  React keeps   *)
(* the value passed last and renders again afterwards; until then every     *)
(* call goes to the callbacks of the same render.                            *)

MaxProviderCalls == 3

\* the default of config.maxRequestsPerMinute
maxRequestsPerMinute == 20

\* RateLimiter.canMakeRequest throws: all the calls of a run fall in one minute
rateLimited(admitted) == admitted >= maxRequestsPerMinute

ProviderProducts == {Candidate(1, VNull, 1), Candidate(2, VNull, 1), Candidate(1, VNull, 999)}
ProviderIds == {1, 2}
ProviderQuantities == {5, 1000}

\* what the effect `storage.save(cart)` leaves in localStorage
savedBy(c, data) ==
    storage_save(AnArray([i \in DOMAIN c |-> AsCandidate(c[i])]), data).data

\* after mounting with nothing in localStorage: the load effect has set [] and
\* the save effect has stored it
InitProvider ==
    /\ provider = [base |-> <<>>, rendered |-> <<>>, state |-> <<>>, calls |-> <<>>,
                   made |-> 0, admitted |-> [a \in {"addItem", "updateQuantity"} |-> 0],
                   stored |-> savedBy(<<>>, NoData)]
    /\ cart = <<>> /\ arg = NoCall.input /\ pre = <<>> /\ ret = NoCall /\ ops = 0
    /\ calc = NoCalc
    /\ limiter = Unused /\ server = Unused /\ tasks = Unused /\ local = Unused

\* setCart(newCart) replacing whatever was set before
setCart_latest(state, newCart) == newCart

\* a callback of the current render has run: it returned true after
\* setCart(outcome.cart), or false after setError; the array of the render is
\* what the cart core left of it
Called(op, input, outcome, action) ==
    /\ provider.made < MaxProviderCalls
    /\ provider' =
         [provider EXCEPT
            !.calls = Append(@, [op |-> op, input |-> input, ok |-> outcome.err = ""]),
            !.made = @ + 1,
            !.admitted = IF action \in DOMAIN @ /\ ~rateLimited(@[action])
                         THEN [@ EXCEPT ![action] = @ + 1] ELSE @,
            !.rendered = outcome.arg,
            !.state = IF outcome.err = "" THEN setCart_latest(@, outcome.cart) ELSE @]
    /\ UNCHANGED <<clientVars, limiter, server, tasks, local>>

\* the outcome of a callback that the rate limiter stops
Limited(c) == Outcome("RATE_LIMIT", c, c)

ProviderAddItem ==
    \E product \in ProviderProducts :
        Called("addItem", product,
               IF rateLimited(provider.admitted["addItem"]) THEN Limited(provider.rendered)
               ELSE addItem(provider.rendered, product),
               "addItem")

ProviderRemoveItem ==
    \E id \in ProviderIds :
        Called("removeItem", Candidate(id, VNull, 0),
               removeItem(provider.rendered, id, VNull), "removeItem")

ProviderUpdateQuantity ==
    \E id \in ProviderIds, quantity \in ProviderQuantities :
        Called("updateQuantity", Candidate(id, VNull, quantity),
               IF rateLimited(provider.admitted["updateQuantity"])
               THEN Limited(provider.rendered)
               ELSE updateQuantity(provider.rendered, id, VNull, quantity),
               "updateQuantity")

\* React renders with the cart set last; the callbacks are created anew for
\* it and the save effect runs
Render ==
    /\ provider.calls # <<>>
    /\ provider' = [provider EXCEPT !.base = provider.state, !.rendered = provider.state,
                                    !.calls = <<>>,
                                    !.stored = savedBy(provider.state, @)]
    /\ UNCHANGED <<clientVars, limiter, server, tasks, local>>

NextProvider == ProviderAddItem \/ ProviderRemoveItem \/ ProviderUpdateQuantity \/ Render

SpecProvider == InitProvider /\ [][NextProvider]_vars

\* ---- vocabulary ----

\* the cart the cart core makes of c by one call
AfterCall(c, call) ==
    CASE call.op = "addItem" -> addItem(c, call.input).cart
      [] call.op = "removeItem" -> removeItem(c, call.input.id, call.input.variant).cart
      [] OTHER -> updateQuantity(c, call.input.id, call.input.variant,
                                 call.input.quantity).cart

\* two calls were made since the last render and both returned true
TwoSucceeded ==
    /\ Len(provider.calls) = 2
    /\ provider.calls[1].ok /\ provider.calls[2].ok

\* C29: when two addItem, updateQuantity or removeItem calls were made from
\* one rendered cart and both returned true, the cart state is the rendered
\* cart with the first call applied and then the second.
C29_NoLostUpdate ==
    TwoSucceeded =>
        provider.state = AfterCall(AfterCall(provider.base, provider.calls[1]),
                                   provider.calls[2])

----------------------------------------------------------------------------
(* The Cart.total field resolver (typeDefs.js:656-665) against checkout     *)
(* (specification SpecServer)                                               *)

\* a - b
jsSubtract(a, b) == IF a.nan \/ b.nan THEN NaN ELSE Num(a.n - b.n)
\* a * (percentage / 100), exact for the whole amounts the seeded prices give
jsTimesPercent(a, percentage) == IF a.nan THEN NaN ELSE Num((a.n * percentage) \div 100)
\* a === b on numbers: NaN equals nothing
jsStrictEquals(a, b) == ~a.nan /\ ~b.nan /\ a.n = b.n

\* Cart.total of a stored cart
Cart_total(storedCart) ==
    LET subtotal == reduceSubtotal(storedCart.items, Num(0))
        discountAmount == IF storedCart.discount # 0
                          THEN jsTimesPercent(subtotal, storedCart.discount) ELSE Num(0)
        afterDiscount == jsSubtract(subtotal, discountAmount)
        tax == jsTimesTenth(afterDiscount)
        shipping == shippingOf(subtotal)
    IN  jsAdd(jsAdd(afterDiscount, tax), shipping)

\* the last request was a checkout that returned and named every item of the cart
CheckedOutWholeCart ==
    /\ CheckedOut
    /\ SelectedPlaces = DOMAIN CallerItemsBefore

\* C30: the total a checkout of the whole cart returns, and the total of the
\* order it creates, equal the total Cart.total gives for the cart as it was
\* when the checkout arrived, with or without a discount on the cart.
C30_CheckoutTotalIsCartTotal ==
    CheckedOutWholeCart =>
        LET before == server.before.carts[carts_findByUserId(server.before, server.resp.user)]
            order == server.db.orders[Len(server.db.orders)]
        IN  /\ jsStrictEquals(server.resp.value.total, Cart_total(before))
            /\ jsStrictEquals(order.total, Cart_total(before))

====
